---- MODULE Spec2Model ----
(***************************************************************************)
(* Model of the debug MCP server of vscode-debug-mcp (debug-server.ts):    *)
(* the tool handlers handleExecute / handleBreakpoints / handleInspect,    *)
(* the two promise races executeAndWaitForStop and waitForLaunchResult,    *)
(* and the part of the VS Code host they talk to (debug sessions, the      *)
(* stopped-event emitter, the termination event, the breakpoint store).    *)
(*                                                                         *)
(* JavaScript is single-threaded: a handler runs without interruption up   *)
(* to its next await on the host, so each action below is one such run.    *)
(***************************************************************************)
EXTENDS Integers, Sequences, FiniteSets, TLC

\* ---------------------------------------------------------------- bounds
MaxCalls == 2        \* tool calls issued in a run (they may overlap)
MaxSessions == 2     \* debug sessions the host creates in a run
MaxConfigs == 2      \* configurations defined in launch.json
MaxLine == 2         \* largest line number passed to debug_breakpoints
MaxBps == 3          \* breakpoints in the store
MaxArgs == 2         \* optional properties given in the arguments of a call
MaxEntries == 2      \* entries of a registry that the stdio bridge reads
MaxTransports == 2   \* SSE connections at one time
MaxSubs == 2         \* subscribers of the stop-event channel
MaxEvents == 3       \* messages that the debug adapters send
MaxThreads == 2      \* largest thread id
MaxStarts == 3       \* calls of start() on one DebugServer
MaxStops == 3        \* stops of the program during evaluations

Calls == 1..MaxCalls
Sessions == 1..MaxSessions
NoSession == 0       \* vscode.debug.activeDebugSession === undefined
NoName == 0          \* args.configurationName absent

VARIABLES
    wsFolder,    \* vscode.workspace.workspaceFolders?.[0] exists
    configs,     \* launch.json "configurations": sequence of names
    sess,        \* host: state of each debug session
    launchedBy,  \* history: the launch call that started the session (0: the user)
    active,      \* host: vscode.debug.activeDebugSession
    call,        \* per tool call: position, closure variables, listeners, result
    first,       \* history: per call, the first race event of its session
    store,       \* host: vscode.debug.breakpoints
    expected,    \* history: what set/remove calls have left, as given by callers
    listed,      \* reply of the list action, until the next set or remove
    bpReply,     \* reply of the last debug_breakpoints call
    server,      \* this.server: "null", "listening" or "closing"
    isRunning,   \* this._isRunning
    emitter,     \* stoppedEmitter and the tracker registration are not disposed
    port,        \* this.port
    attempt,     \* start(): the loop variable of the bind loop
    portStatus,  \* the machine: what binding each port of the range gives
    listeners,   \* start(): the 'listening' callbacks registered on the server
    bound,       \* the machine: the port this server holds (NoPort: none)
    cmd,         \* extension.ts: the command or start that is under way
    registry,    \* port-config.json: workspace root -> port
    parity,      \* one call as the SSE binding and as /tcp answer it
    drift,       \* one comparison of the tool schemas of two transports
    lookup,      \* one port lookup of the stdio bridge
    transports,  \* this.activeTransports: the ids of the SSE transports
    shutdown,    \* history: how far a POST /shutdown has got
    channel,     \* the stop-event channel: what was sent, who listens, who got what
    bridge,      \* one tool call through the stdio bridge
    evald,       \* one evaluate of debug_inspect
    step,        \* one continue/step call: the thread and the command it uses
    stale,       \* the frames of the host and the frame that evaluate uses
    shared,      \* port-config.json as two windows read and write it
    sse,         \* the SSE connections: how far each has got
    starts       \* history: the calls of start() and what became of them

vars == <<wsFolder, configs, sess, launchedBy, active, call, first,
          store, expected, listed, bpReply, server, isRunning, emitter,
          port, attempt, portStatus, listeners, bound, cmd, registry,
          parity, drift, lookup, transports, shutdown, channel, bridge,
          evald, step, stale, shared, sse, starts>>
srvVars == <<server, isRunning, emitter>>
connVars == <<transports, shutdown>>
lifeVars == <<port, attempt, portStatus, listeners, bound, cmd, registry>>
firstProbes == <<parity, drift, lookup, channel, bridge, evald>>
laterProbes == <<step, stale, shared, sse, starts>>
probeVars == <<firstProbes, laterProbes>>
sessionVars == <<wsFolder, configs, sess, launchedBy, active, call, first>>
bpVars == <<store, expected, listed, bpReply>>

\* ------------------------------------------------------------- messages
MsgNoSession == "No active debug session"
MsgNoSessionPaused == "No active debug session. The program must be paused."
MsgAlreadyActive == "Debug session already active"
MsgTerminated == "Debug session terminated"
MsgTimeout == "Timed out waiting for program to stop (10s)"
MsgExecFailed == "Execution failed"
MsgStopFailed == "Stopped but failed to get state"
MsgStopped == "completed - stopped at"
MsgSessionStopped == "Debug session stopped"
MsgNoWorkspace == "No workspace folder found"
MsgNoConfigs == "No debug configurations found in launch.json"
MsgNotFound == "Configuration not found. Available:"
MsgMultiple == "Multiple debug configurations available. Specify configurationName."
MsgLaunchStopped == "Debug session started - stopped at"
MsgLaunchNoThread == "Debug session started but no thread ID in stopped event"
MsgLaunchStopFailed == "Debug session started - stopped but failed to get state"
MsgLaunchRunning == "Debug session started (program is running)"
MsgLaunchFailed == "Failed to start debug session"
MsgNoThreads == "No threads available"
MsgHostError == "host error"
MsgUnknownInspect == "Unknown inspect action"
MsgExprRequired == "expression is required for evaluate action"
MsgUnknownTool == "Unknown tool"
MsgUnknownExecute == "Unknown execute action"
MsgUnknownBreakpoints == "Unknown breakpoints action"
MsgSetNoFile == "file is required for set action"
MsgSetNoLine == "line is required for set action"
MsgRemoveNoFile == "file is required for remove action"
MsgRemoveNoLine == "line is required for remove action"
MsgBadJson == "Unexpected token"
MsgNullBody == "Cannot read properties of null"
MsgTools == "tools"
NoData == ""
MsgInspected == "inspect result"

StepActions == {"continue", "stepOver", "stepIn", "stepOut"}

\* The reply of the /tcp endpoint: {success:true, data} or {success:false, error}.
NoResult == [ok |-> FALSE, msg |-> "", names |-> <<>>]
Success(m) == [ok |-> TRUE, msg |-> m, names |-> <<>>]
SuccessNames(m, ns) == [ok |-> TRUE, msg |-> m, names |-> ns]
Failure(m) == [ok |-> FALSE, msg |-> m, names |-> <<>>]
FailureNames(m, ns) == [ok |-> FALSE, msg |-> m, names |-> ns]

IdleCall ==
    [pc |-> "idle", tool |-> "none", action |-> "none", name |-> NoName, session |-> NoSession,
     config |-> NoName,
     resolved |-> FALSE, stoppedSub |-> FALSE,
     termSub |-> FALSE, timer |-> "none", deadline |-> FALSE, act |-> "none",
     gather |-> "none", gatherSession |-> NoSession, resolves |-> 0,
     outcome |-> "none", commanded |-> FALSE, result |-> NoResult,
     type |-> "callTool", responses |-> 0]

\* Variant: the /tcp handler has no catch block, so a handler that throws
\* ends without a response.
RespondNoCatch(cr, reply) ==
    IF reply.ok
    THEN [cr EXCEPT !.pc = "done", !.result = reply, !.responses = @ + 1]
    ELSE [cr EXCEPT !.pc = "done", !.result = reply]

\* The /tcp handler ends the response: {success: true, data} after the
\* handler returned, {success: false, error} from the catch block after it
\* threw (reply.ok tells which).
Respond(cr, reply) ==
    [cr EXCEPT !.pc = "done", !.result = reply, !.responses = @ + 1]

Range(s) == {s[i] : i \in DOMAIN s}

\* --------------------------------------------- the race: shared helpers
\* Variant: cleanup() disposes the listeners and leaves the timer.
CleanupKeepsTimer(cr) ==
    [cr EXCEPT !.stoppedSub = FALSE, !.termSub = FALSE]

\* cleanup(): dispose both listeners and clear the timer (a timer that has
\* already run is unaffected by clearTimeout).
Cleanup(cr) ==
    [cr EXCEPT !.stoppedSub = FALSE, !.termSub = FALSE,
               !.timer = IF @ = "armed" THEN "cleared" ELSE @]

\* Variant: a race that ends without a stop makes handleExecute throw.
StepResultStrict(outcome) ==
    CASE outcome = "stopped" -> Success(MsgStopped)
      [] outcome = "stopfail" -> Success(MsgStopFailed)
      [] outcome = "terminated" -> Failure(MsgTerminated)
      [] outcome = "timeout" -> Failure(MsgTimeout)
      [] outcome = "execfail" -> Failure(MsgExecFailed)
      [] OTHER -> NoResult

\* What handleExecute returns after executeAndWaitForStop resolved.
StepResult(outcome) ==
    CASE outcome = "stopped" -> Success(MsgStopped)
      [] outcome = "stopfail" -> Success(MsgStopFailed)
      [] outcome = "terminated" -> Success(MsgTerminated)
      [] outcome = "timeout" -> Success(MsgTimeout)
      [] outcome = "execfail" -> Success(MsgExecFailed)
      [] OTHER -> NoResult

\* What handleExecute returns after waitForLaunchResult resolved.
LaunchResult(outcome) ==
    CASE outcome = "stopped" -> Success(MsgLaunchStopped)
      [] outcome = "nothread" -> Success(MsgLaunchNoThread)
      [] outcome = "stopfail" -> Success(MsgLaunchStopFailed)
      [] outcome = "terminated" -> Success(MsgTerminated)
      [] outcome = "timeout" -> Success(MsgLaunchRunning)
      [] outcome = "execfail" -> Success(MsgLaunchFailed)
      [] OTHER -> NoResult

\* resolve(value) of the race's promise. Only the first call settles the
\* promise; the awaiting handler then builds its reply and the /tcp handler
\* sends it.  resolves counts the calls of resolve().
Resolve(cr, outcome) ==
    IF cr.outcome = "none"
    THEN Respond([cr EXCEPT !.resolves = @ + 1, !.outcome = outcome],
                 IF cr.action = "launch" THEN LaunchResult(outcome)
                 ELSE StepResult(outcome))
    ELSE [cr EXCEPT !.resolves = @ + 1]

\* ------------------------------------------- executeAndWaitForStop
\* Variant: the listener marks the race as resolved only after the await of
\* gatherStoppedState, so listeners and timer stay in place meanwhile.
ExecOnStoppedLate(cr, s) ==
    IF cr.resolved THEN cr
    ELSE IF s = cr.session
         THEN [cr EXCEPT !.gather = "pending", !.gatherSession = s,
                         !.commanded = TRUE]
         ELSE cr

\* Variant: the stop listener takes the stop of any session.
ExecOnStoppedAny(cr, s) ==
    IF cr.resolved THEN cr
    ELSE [Cleanup(cr) EXCEPT !.resolved = TRUE, !.gather = "pending",
                             !.gatherSession = s,
                             !.commanded = TRUE]

\* The stoppedEmitter listener, up to its await of gatherStoppedState.
ExecOnStopped(cr, s) ==
    IF cr.resolved THEN cr
    ELSE IF s = cr.session
         THEN [Cleanup(cr) EXCEPT !.resolved = TRUE, !.gather = "pending",
                                  !.gatherSession = s,
                                  !.commanded = TRUE]
         ELSE cr

\* Variant: the termination listener cleans up and leaves the promise
\* unsettled.
ExecOnTerminatedQuiet(cr, s) ==
    IF cr.resolved THEN cr
    ELSE IF s = cr.session
         THEN [Cleanup(cr) EXCEPT !.resolved = TRUE]
         ELSE cr

\* Variant: the termination listener tests the session the wrong way round.
ExecOnTerminatedOther(cr, s) ==
    IF cr.resolved THEN cr
    ELSE IF s # cr.session
         THEN Resolve([Cleanup(cr) EXCEPT !.resolved = TRUE], "terminated")
         ELSE cr

\* The onDidTerminateDebugSession listener.
ExecOnTerminated(cr, s) ==
    IF cr.resolved THEN cr
    ELSE IF s = cr.session
         THEN Resolve([Cleanup(cr) EXCEPT !.resolved = TRUE], "terminated")
         ELSE cr

\* The setTimeout callback.
ExecOnTimer(cr) ==
    IF cr.resolved THEN cr
    ELSE Resolve([Cleanup(cr) EXCEPT !.resolved = TRUE], "timeout")

\* Variant: the catch block does not test the resolved flag.
ExecOnActionFailedAlways(cr) ==
    Resolve([Cleanup(cr) EXCEPT !.resolved = TRUE], "execfail")

\* The catch block around await executeFn().
ExecOnActionFailed(cr) ==
    IF ~cr.resolved
    THEN Resolve([Cleanup(cr) EXCEPT !.resolved = TRUE], "execfail")
    ELSE cr

\* Variant: a stack query that fails is reported as a stop all the same.
OnGatheredAsStopped(cr, r) ==
    Resolve([cr EXCEPT !.gather = "done"], "stopped")

\* Variant: the listener has no catch block around gatherStoppedState, so a
\* stack query that fails leaves the promise of the race unresolved.
OnGatheredNoCatch(cr, r) ==
    IF r = "frames" THEN Resolve([cr EXCEPT !.gather = "done"], "stopped")
    ELSE [cr EXCEPT !.gather = "done"]

\* The rest of either stoppedEmitter listener, after gatherStoppedState settled:
\* r = "frames" (a non-empty stack), "empty" (no frames: gatherStoppedState
\* throws) or "fail" (the stackTrace request was rejected).
OnGathered(cr, r) ==
    Resolve([cr EXCEPT !.gather = "done"],
            IF r = "frames" THEN "stopped" ELSE "stopfail")

\* Variant: executeFn() is called first, and the listeners are registered
\* only when its promise has settled.
ExecBeginActionFirst(cr, s) ==
    [cr EXCEPT !.pc = "waiting", !.session = s, !.timer = "armed",
               !.act = "pending", !.commanded = TRUE]

\* The synchronous prefix of executeAndWaitForStop: both listeners and the
\* timer are registered, then executeFn() is called.
ExecBegin(cr, s) ==
    [cr EXCEPT !.pc = "waiting", !.session = s, !.stoppedSub = TRUE,
               !.termSub = TRUE, !.timer = "armed", !.act = "pending",
               !.commanded = TRUE]

\* ------------------------------------------- waitForLaunchResult
\* The stoppedEmitter listener of a launch, up to its first await.  It has
\* no session filter: the stopped event of any session is taken.  A stopped
\* event without body.threadId resolves at once.
LaunchOnStopped(cr, s, hasThread) ==
    IF cr.resolved THEN cr
    ELSE IF hasThread
         THEN [Cleanup(cr) EXCEPT !.resolved = TRUE, !.gather = "pending",
                                  !.gatherSession = s,
                                  !.commanded = TRUE]
         ELSE Resolve([Cleanup(cr) EXCEPT !.resolved = TRUE], "nothread")

\* The onDidTerminateDebugSession listener of a launch (no session filter).
LaunchOnTerminated(cr, s) ==
    IF cr.resolved THEN cr
    ELSE Resolve([Cleanup(cr) EXCEPT !.resolved = TRUE], "terminated")

\* The setTimeout callback of a launch.
LaunchOnTimer(cr) ==
    IF cr.resolved THEN cr
    ELSE Resolve([Cleanup(cr) EXCEPT !.resolved = TRUE], "timeout")

\* The catch block around await vscode.debug.startDebugging().
LaunchOnActionFailed(cr) ==
    IF ~cr.resolved
    THEN Resolve([Cleanup(cr) EXCEPT !.resolved = TRUE], "execfail")
    ELSE cr

\* The synchronous prefix of waitForLaunchResult: listeners and timer are
\* registered, then startDebugging(workspaceFolder, config) is called; the
\* host begins to create session s.
LaunchBegin(cr, s, cfg) ==
    [cr EXCEPT !.pc = "waiting", !.session = s, !.config = cfg,
               !.stoppedSub = TRUE, !.termSub = TRUE, !.timer = "armed",
               !.act = "pending", !.commanded = TRUE]

\* Dispatch of the two listeners' bodies by the race that registered them.
OnStopped(cr, s, hasThread) ==
    IF cr.action = "launch" THEN LaunchOnStopped(cr, s, hasThread)
    ELSE ExecOnStopped(cr, s)

OnTerminated(cr, s) ==
    IF cr.action = "launch" THEN LaunchOnTerminated(cr, s)
    ELSE ExecOnTerminated(cr, s)

OnTimer(cr) ==
    IF cr.action = "launch" THEN LaunchOnTimer(cr) ELSE ExecOnTimer(cr)

OnActionFailed(cr) ==
    IF cr.action = "launch" THEN LaunchOnActionFailed(cr)
    ELSE ExecOnActionFailed(cr)

\* ------------------------------------------- handleExecute: launch
\* Variant: without a name the first configuration is taken whenever there
\* is one, and an unknown name falls back to the first configuration.
ResolveLaunchConfigFirst(ws, cfgs, name) ==
    IF ~ws THEN [kind |-> "error", reply |-> Failure(MsgNoWorkspace), config |-> NoName]
    ELSE IF Len(cfgs) = 0
    THEN [kind |-> "error", reply |-> Failure(MsgNoConfigs), config |-> NoName]
    ELSE IF name # NoName /\ name \in Range(cfgs)
    THEN [kind |-> "config", reply |-> NoResult, config |-> name]
    ELSE [kind |-> "config", reply |-> NoResult, config |-> cfgs[1]]

\* Variant: the start is not guarded by the active session.
LaunchBlockedNever(act) == FALSE

\* Resolution of the launch configuration (before anything is started):
\* kind "error" (throws), "list" (returns the names) or "config".
ResolveLaunchConfig(ws, cfgs, name) ==
    IF ~ws THEN [kind |-> "error", reply |-> Failure(MsgNoWorkspace), config |-> NoName]
    ELSE IF Len(cfgs) = 0
    THEN [kind |-> "error", reply |-> Failure(MsgNoConfigs), config |-> NoName]
    ELSE IF name # NoName
    THEN IF name \in Range(cfgs)
         THEN [kind |-> "config", reply |-> NoResult, config |-> name]
         ELSE [kind |-> "error", reply |-> FailureNames(MsgNotFound, cfgs),
               config |-> NoName]
    ELSE IF Len(cfgs) = 1
    THEN [kind |-> "config", reply |-> NoResult, config |-> cfgs[1]]
    ELSE [kind |-> "list", reply |-> SuccessNames(MsgMultiple, cfgs), config |-> NoName]

\* The check of vscode.debug.activeDebugSession that guards the start.
LaunchBlocked(act) == act # NoSession

FreeSessions == {s \in Sessions : sess[s] = "absent"}
NextSession == CHOOSE s \in FreeSessions : \A t \in FreeSessions : s <= t
LiveStates == {"running", "stopped"}
Issued(c) == call[c].pc # "idle"
CanIssue(c) ==
    /\ server = "listening"
    /\ call[c].pc = "idle" /\ \A d \in Calls : d < c => Issued(d)
Finish(cr, reply) == Respond(cr, reply)

\* debug_execute {action: "launch", configurationName?: name}
CallLaunch(c, name) ==
    /\ CanIssue(c)
    /\ LET r == ResolveLaunchConfig(wsFolder, configs, name)
           cr == [call[c] EXCEPT !.tool = "debug_execute", !.action = "launch",
                                 !.name = name]
       IN  IF r.kind # "config"
           THEN /\ call' = [call EXCEPT ![c] = Finish(cr, r.reply)]
                /\ UNCHANGED <<sess, launchedBy>>
           ELSE IF LaunchBlocked(active)
           THEN /\ call' = [call EXCEPT ![c] =
                               Finish([cr EXCEPT !.config = r.config],
                                      Success(MsgAlreadyActive))]
                /\ UNCHANGED <<sess, launchedBy>>
           ELSE /\ FreeSessions # {}
                /\ call' = [call EXCEPT ![c] = LaunchBegin(cr, NextSession, r.config)]
                /\ sess' = [sess EXCEPT ![NextSession] = "starting"]
                /\ launchedBy' = [launchedBy EXCEPT ![NextSession] = c]
    /\ UNCHANGED <<wsFolder, configs, active, first, bpVars, srvVars, lifeVars, connVars, probeVars>>

\* ------------------------------------------- handleExecute: stop
\* debug_execute {action: "stop"}
CallStop(c) ==
    /\ CanIssue(c)
    /\ LET cr == [call[c] EXCEPT !.tool = "debug_execute", !.action = "stop"]
       IN  call' = [call EXCEPT ![c] =
                       IF active = NoSession
                       THEN Finish(cr, Success(MsgNoSession))
                       ELSE [cr EXCEPT !.pc = "stopping", !.session = active,
                                       !.commanded = TRUE]]
    /\ UNCHANGED <<wsFolder, configs, sess, launchedBy, active, first, bpVars, srvVars, lifeVars, connVars, probeVars>>

\* await vscode.debug.stopDebugging(session) settles.
StopSettles(c, ok) ==
    /\ call[c].pc = "stopping"
    /\ call' = [call EXCEPT ![c] =
                   Respond(@, IF ok THEN Success(MsgSessionStopped)
                              ELSE Failure(MsgHostError))]
    /\ UNCHANGED <<wsFolder, configs, sess, launchedBy, active, first, bpVars, srvVars, lifeVars, connVars, probeVars>>

\* ------------------------- handleExecute: continue / stepOver / stepIn / stepOut
\* Variant: without a session the step actions answer like stop does.
CallStepBenign(c, a, direct) ==
    /\ CanIssue(c)
    /\ LET cr == [call[c] EXCEPT !.tool = "debug_execute", !.action = a]
       IN  call' = [call EXCEPT ![c] =
                       IF active = NoSession
                       THEN Finish(cr, Success(MsgNoSession))
                       ELSE IF direct
                       THEN ExecBegin(cr, active)
                       ELSE [cr EXCEPT !.pc = "threads", !.session = active,
                                       !.commanded = TRUE]]
    /\ UNCHANGED <<wsFolder, configs, sess, launchedBy, active, first, bpVars, srvVars, lifeVars, connVars, probeVars>>

\* debug_execute {action: a, threadId?}.  resolveThreadId returns without a
\* host request (direct) when the thread id is given or the host has an
\* active stack item; otherwise it awaits the DAP threads request.
CallStep(c, a, direct) ==
    /\ CanIssue(c)
    /\ LET cr == [call[c] EXCEPT !.tool = "debug_execute", !.action = a]
       IN  call' = [call EXCEPT ![c] =
                       IF active = NoSession
                       THEN Finish(cr, Failure(MsgNoSession))
                       ELSE IF direct
                       THEN ExecBegin(cr, active)
                       ELSE [cr EXCEPT !.pc = "threads", !.session = active,
                                       !.commanded = TRUE]]
    /\ UNCHANGED <<wsFolder, configs, sess, launchedBy, active, first, bpVars, srvVars, lifeVars, connVars, probeVars>>

\* The threads request of resolveThreadId settles: r = "ok" (some thread),
\* "empty" (no thread: throws) or "fail" (request rejected).
ThreadsAnswer(c, r) ==
    /\ call[c].pc = "threads"
    /\ call' = [call EXCEPT ![c] =
                   IF r = "ok"
                   THEN ExecBegin(@, @.session)
                   ELSE Respond(@, IF r = "empty" THEN Failure(MsgNoThreads)
                                   ELSE Failure(MsgHostError))]
    /\ UNCHANGED <<wsFolder, configs, sess, launchedBy, active, first, bpVars, srvVars, lifeVars, connVars, probeVars>>

\* ------------------------------------------- handleInspect
InspectActions == {"evaluate", "stackTrace"}

\* Variant: the switch on the action comes before the session check.
InspectCheckActionFirst(act, a, hasExpression) ==
    IF a = "evaluate" /\ ~hasExpression THEN MsgExprRequired
    ELSE IF a \notin {"evaluate", "stackTrace"} THEN MsgUnknownInspect
    ELSE IF act = NoSession THEN MsgNoSessionPaused
    ELSE ""

\* The synchronous checks of handleInspect: the session check, then the
\* switch on the action, then the expression check of evaluate.
\* "" means that the checks passed.
InspectCheck(act, a, hasExpression) ==
    IF act = NoSession THEN MsgNoSessionPaused
    ELSE IF a = "evaluate" THEN (IF hasExpression THEN "" ELSE MsgExprRequired)
    ELSE IF a = "stackTrace" THEN ""
    ELSE MsgUnknownInspect

\* debug_inspect {action: a, expression?}
CallInspect(c, a, hasExpression) ==
    /\ CanIssue(c)
    /\ LET m == InspectCheck(active, a, hasExpression)
           cr == [call[c] EXCEPT !.tool = "debug_inspect", !.action = a]
       IN  call' = [call EXCEPT ![c] =
                       IF m # ""
                       THEN Finish(cr, Failure(m))
                       ELSE [cr EXCEPT !.pc = "inspecting", !.session = active,
                                       !.commanded = TRUE]]
    /\ UNCHANGED <<wsFolder, configs, sess, launchedBy, active, first, bpVars, srvVars, lifeVars, connVars, probeVars>>

\* The host request(s) of evaluate / stackTrace settle.
InspectSettles(c, ok) ==
    /\ call[c].pc = "inspecting"
    /\ call' = [call EXCEPT ![c] =
                   Respond(@, IF ok THEN Success(MsgInspected)
                              ELSE Failure(MsgHostError))]
    /\ UNCHANGED <<wsFolder, configs, sess, launchedBy, active, first, bpVars, srvVars, lifeVars, connVars, probeVars>>

\* ------------------------------------------- handleBreakpoints
\* A file argument: an absolute path, with its drive letter if it has one
\* ("" on POSIX).  NoFile stands for a missing or empty file argument.
File(drive, path) == [drive |-> drive, path |-> path]
NoFile == File("", "")
NoOpt == ""          \* an optional string argument that is absent
NoLineArg == 0       \* args.line absent or 0: both are falsy

\* vscode.Uri.file(f).fsPath, as the VS Code API documents it: the path is
\* kept, and a Windows drive letter is normalised to lower case.
LowerCase(d) == IF d = "C" THEN "c" ELSE d
FsPath(f) == [f EXCEPT !.drive = LowerCase(@)]

\* new vscode.Position(line, 0) throws on a negative line.
PositionOk(line0) == line0 >= 0

\* One entry of the reply of list.
ListEntry(bp) ==
    [file |-> FsPath(bp.uri), line |-> bp.line0 + 1, enabled |-> bp.enabled,
     condition |-> bp.condition, hitCondition |-> bp.hitCondition,
     logMessage |-> bp.logMessage]

\* The reply of list for the breakpoints bps of the host.
ListReply(bps) ==
    [breakpoints |-> [i \in DOMAIN bps |-> ListEntry(bps[i])], count |-> Len(bps)]

\* Variant: the filter of remove looks at the line only.
RemoveMatchesLineOnly(bp, file, line) == bp.line0 = line - 1

\* The filter of remove: same fsPath, and the 0-based line of the argument.
RemoveMatches(bp, file, line) == FsPath(bp.uri) = file /\ bp.line0 = line - 1

\* What the caller of set gave, as an entry of list would echo it.
Given(file, line, cond, hit, log) ==
    [file |-> file, line |-> line, enabled |-> TRUE, condition |-> cond,
     hitCondition |-> hit, logMessage |-> log]

\* The entries of es whose breakpoint in bps remove{file, line} leaves in place
\* (es and bps run in parallel).
RECURSIVE NotRemoved(_, _, _, _)
NotRemoved(es, bps, file, line) ==
    IF bps = <<>> THEN <<>>
    ELSE IF RemoveMatches(Head(bps), file, line)
         THEN NotRemoved(Tail(es), Tail(bps), file, line)
         ELSE <<Head(es)>> \o NotRemoved(Tail(es), Tail(bps), file, line)

NoList == [breakpoints |-> <<>>, count |-> -1]
\* A reply of debug_breakpoints: set and remove name the file and the line
\* of the call in their reply.
BpReply(ok, msg, file, line, removed) ==
    [ok |-> ok, msg |-> msg, file |-> file, line |-> line, removed |-> removed]
NoReply == BpReply(FALSE, "", NoFile, NoLineArg, 0)

\* Variant: set tests the file argument only.
SetArgsErrorFileOnly(file, line) == IF file = NoFile THEN MsgSetNoFile ELSE ""

\* The argument checks of set ("" means that they passed).
SetArgsError(file, line) ==
    IF file = NoFile THEN MsgSetNoFile
    ELSE IF line = NoLineArg THEN MsgSetNoLine
    ELSE ""

\* The argument checks of remove.
RemoveArgsError(file, line) ==
    IF file = NoFile THEN MsgRemoveNoFile
    ELSE IF line = NoLineArg THEN MsgRemoveNoLine
    ELSE ""

\* debug_breakpoints {action: "set", file, line, condition?, hitCondition?,
\* logMessage?}; exists tells whether openTextDocument finds the file.
BpSet(file, line, cond, hit, log, exists) ==
    /\ Len(store) < MaxBps
    /\ listed' = NoList
    /\ IF SetArgsError(file, line) # "" \/ ~exists \/ ~PositionOk(line - 1)
       THEN /\ bpReply' = BpReply(FALSE,
                                  IF SetArgsError(file, line) # ""
                                  THEN SetArgsError(file, line) ELSE MsgHostError,
                                  NoFile, NoLineArg, 0)
            /\ UNCHANGED <<store, expected>>
       ELSE /\ store' = Append(store,
                               [uri |-> file, line0 |-> line - 1, enabled |-> TRUE,
                                condition |-> cond, hitCondition |-> hit,
                                logMessage |-> log])
            /\ expected' = Append(expected, Given(file, line, cond, hit, log))
            /\ bpReply' = BpReply(TRUE, "Breakpoint set at", file, line, 0)
    /\ UNCHANGED <<sessionVars, srvVars, lifeVars, connVars, probeVars>>

\* debug_breakpoints {action: "remove", file, line}
BpRemove(file, line) ==
    /\ listed' = NoList
    /\ IF RemoveArgsError(file, line) # ""
       THEN /\ bpReply' = BpReply(FALSE, RemoveArgsError(file, line),
                                  NoFile, NoLineArg, 0)
            /\ UNCHANGED <<store, expected>>
       ELSE LET keep(bp) == ~RemoveMatches(bp, file, line)
                n == Len(store) - Len(SelectSeq(store, keep))
            IN  /\ store' = SelectSeq(store, keep)
                /\ bpReply' = BpReply(TRUE,
                                      IF n = 0 THEN "No breakpoint found at"
                                      ELSE "Removed breakpoint(s) at",
                                      file, line, n)
                /\ expected' = NotRemoved(expected, store, file, line)
    /\ UNCHANGED <<sessionVars, srvVars, lifeVars, connVars, probeVars>>

\* debug_breakpoints {action: "list"}
BpList ==
    /\ listed' = ListReply(store)
    /\ bpReply' = BpReply(TRUE, "list", NoFile, NoLineArg, 0)
    /\ UNCHANGED <<store, expected, sessionVars, srvVars, lifeVars, connVars, probeVars>>

\* debug_breakpoints with an action that is none of set, remove, list.
BpUnknown ==
    /\ bpReply' = BpReply(FALSE, MsgUnknownBreakpoints, NoFile, NoLineArg, 0)
    /\ UNCHANGED <<store, expected, listed, sessionVars, srvVars, lifeVars, connVars, probeVars>>

\* ------------------------------------------- handleCommand / handleExecute
\* callTool with a tool name that is none of the three tools.
CallUnknownTool(c) ==
    /\ CanIssue(c)
    /\ call' = [call EXCEPT ![c] =
                   Finish([@ EXCEPT !.tool = "bogus"], Failure(MsgUnknownTool))]
    /\ UNCHANGED <<wsFolder, configs, sess, launchedBy, active, first, bpVars, srvVars, lifeVars, connVars, probeVars>>

\* debug_execute with an action that the switch does not know.
CallExecuteUnknown(c) ==
    /\ CanIssue(c)
    /\ call' = [call EXCEPT ![c] =
                   Finish([@ EXCEPT !.tool = "debug_execute", !.action = "bogus"],
                          Failure(MsgUnknownExecute))]
    /\ UNCHANGED <<wsFolder, configs, sess, launchedBy, active, first, bpVars, srvVars, lifeVars, connVars, probeVars>>

\* ------------------------------------------- the /tcp endpoint
\* The bodies of /tcp requests that are no callTool request: text that is no
\* JSON, the JSON null, a JSON value whose type is neither listTools nor
\* callTool, and a listTools request.
OtherBodies == {"unparsable", "null", "other", "listTools"}

\* What the /tcp handler answers to such a body.
TcpAnswer(body) ==
    CASE body = "unparsable" -> Failure(MsgBadJson)
      [] body = "null" -> Failure(MsgNullBody)
      [] body = "listTools" -> Success(MsgTools)
      [] OTHER -> Success(NoData)

\* POST /tcp with a body that is no callTool request.
TcpRequest(c, body) ==
    /\ CanIssue(c)
    /\ call' = [call EXCEPT ![c] = Respond([@ EXCEPT !.type = body], TcpAnswer(body))]
    /\ UNCHANGED <<wsFolder, configs, sess, launchedBy, active, first, bpVars, srvVars, lifeVars, connVars, probeVars>>

\* ------------------------------------------- the port registry
DefaultPort == 4711  \* the port of a server whose configured port is 0 or unset
MaxAttempts == 10    \* start(): maxAttempts
NoPort == 0          \* no port is held

\* Paths are sequences of characters.  The root of the workspace folder of
\* this window, and the root of the folder of another window.
WsRoot == <<"/", "w">>
PeerRoot == <<"/", "p">>
Folders == IF wsFolder THEN {WsRoot} ELSE {}

\* The registry is the sequence of its entries, in the order of the keys of
\* the JSON object.  registry[path] = p for one path:
RegisterOne(reg, path, p) ==
    IF \E i \in DOMAIN reg : reg[i].path = path
    THEN [i \in DOMAIN reg |->
             IF reg[i].path = path THEN [path |-> path, port |-> p] ELSE reg[i]]
    ELSE Append(reg, [path |-> path, port |-> p])

\* registerWorkspacePorts(port): every workspace folder of the window is
\* mapped to the port.
RegisterWorkspacePorts(reg, p) ==
    IF wsFolder THEN RegisterOne(reg, WsRoot, p) ELSE reg

\* unregisterWorkspacePorts(): the entries of the folders are deleted.
IsForeign(e) == e.path \notin Folders
UnregisterWorkspacePorts(reg) == SelectSeq(reg, IsForeign)

\* Another window registers its folder under its port.
PeerRegisters(q) ==
    /\ registry' = RegisterOne(registry, PeerRoot, q)
    /\ UNCHANGED <<sessionVars, bpVars, srvVars, connVars, probeVars,
                   port, attempt, portStatus, listeners, bound, cmd>>

\* ------------------------------------------- the stdio bridge: getPortFromConfig
Sep == "/"           \* path.sep

\* s.startsWith(prefix)
StartsWith(s, prefix) ==
    Len(prefix) <= Len(s) /\ SubSeq(s, 1, Len(prefix)) = prefix

CwdMatchesNoSep(cwd, workspacePath) == StartsWith(cwd, workspacePath)

\* cwd === workspacePath || cwd.startsWith(workspacePath + path.sep)
CwdMatches(cwd, workspacePath) ==
    cwd = workspacePath \/ StartsWith(cwd, workspacePath \o <<Sep>>)

IsNumberAlways(e) == TRUE

\* typeof port === 'number', for the entry e of the parsed file.  An entry
\* holds its key, its value and the type of the value.
IsNumber(e) == e.type = "number"

\* The loop over Object.entries(registry) from entry i on; best holds
\* bestMatch and bestPort.
RECURSIVE BestFrom(_, _, _, _)
BestFrom(reg, i, cwd, best) ==
    IF i > Len(reg) THEN best
    ELSE BestFrom(reg, i + 1, cwd,
                  IF /\ IsNumber(reg[i])
                     /\ CwdMatches(cwd, reg[i].path)
                     /\ Len(reg[i].path) > Len(best.path)
                  THEN reg[i] ELSE best)

\* getPortFromConfig() for the parsed registry reg and the working
\* directory cwd: the port of the best match, else the first value of the
\* registry that is a number, else the default port.
GetPortFromConfig(reg, cwd) ==
    LET best == BestFrom(reg, 1, cwd, [path |-> <<>>, port |-> NoPort])
        ports == SelectSeq(reg, IsNumber)
    IN IF best.port # NoPort THEN best.port
       ELSE IF Len(ports) > 0 THEN ports[1].port
       ELSE DefaultPort

\* What the bridge finds at the place of port-config.json: no file, a file
\* that cannot be read, text that is no JSON, or a JSON object.
FileStates == {"missing", "unreadable", "invalid", "object"}

\* getPortFromConfig() from the file on: without a file the default port,
\* and the default port as well when reading or parsing throws.
ReadPort(file, reg, cwd) ==
    IF file = "object" THEN GetPortFromConfig(reg, cwd) ELSE DefaultPort

\* The directories of the lookups: /a, /a/b, /a/b/c, /a/bc and /b.
LookupPaths ==
    {<<Sep, "a">>, <<Sep, "a", Sep, "b">>, <<Sep, "a", Sep, "b", Sep, "c">>,
     <<Sep, "a", Sep, "b", "c">>, <<Sep, "b">>}
LookupPorts == {DefaultPort + 1, DefaultPort + 2}

\* The registries: up to MaxEntries entries with different keys.
Registries ==
    {reg \in UNION {[1..n -> [path : LookupPaths, port : LookupPorts,
                               type : {"number"}]] : n \in 0..MaxEntries} :
        \A i, j \in DOMAIN reg : i # j => reg[i].path # reg[j].path}

\* Files of either layout, as written by anyone: the key of an entry is a
\* workspace root or "port" (the legacy layout {port}), and its value is a
\* number or a string.
LegacyKey == <<"p", "o", "r", "t">>
FileEntries ==
    [path : LookupPaths \cup {LegacyKey}, port : LookupPorts, type : {"number"}]
    \cup [path : LookupPaths \cup {LegacyKey}, port : {DefaultPort + 3},
          type : {"string"}]
FileRegistries ==
    {reg \in UNION {[1..n -> FileEntries] : n \in 0..MaxEntries} :
        \A i, j \in DOMAIN reg : i # j => reg[i].path # reg[j].path}

\* The stdio bridge starts in directory cwd and looks its port up.
BridgeLookup(file, reg, cwd) ==
    /\ lookup' = [file |-> file, reg |-> reg, cwd |-> cwd,
                  port |-> ReadPort(file, reg, cwd)]
    /\ UNCHANGED <<sessionVars, bpVars, srvVars, lifeVars, connVars, parity, drift,
                   channel, bridge, evald, laterProbes>>

\* ------------------------------------------- start(): the bind loop
\* setPort(port)
SetPort(p) == IF p = 0 THEN DefaultPort ELSE p

\* The ports start() tries from port p on, and what binding one gives:
\* success, a bind conflict, or another error.
PortRange(p) == p..(p + MaxAttempts - 1)
Statuses == {"free", "EADDRINUSE", "EACCES"}
AllFree(p) == [q \in PortRange(p) |-> "free"]

RunListeningFirst(ls) == ls[1]

\* The 'listening' event runs the callbacks that the attempts have passed
\* to listen(), in the order of the attempts; each one assigns the port of
\* its attempt to this.port.  The value of this.port afterwards:
RunListening(ls) == ls[Len(ls)]

\* Variant: stop() leaves the SSE transports as they are.
StopKeepsTransports ==
    /\ emitter' = FALSE
    /\ bound' = NoPort
    /\ transports' = transports
    /\ IF server = "null"
       THEN server' = server /\ isRunning' = FALSE
       ELSE server' = "closing" /\ isRunning' = isRunning

\* stop(), up to the call of server.close(): tracker and emitter are
\* disposed, and a server that exists has its SSE transports closed and
\* removed and stops listening.
Stop ==
    /\ emitter' = FALSE
    /\ bound' = NoPort
    /\ IF server = "null"
       THEN server' = server /\ isRunning' = FALSE /\ transports' = transports
       ELSE server' = "closing" /\ isRunning' = isRunning /\ transports' = {}

\* startServer() up to the first attempt: the configured port p is set and
\* start() creates the server.  st is what the ports of the range give.
BeginStart(p, st) ==
    /\ port' = SetPort(p)
    /\ attempt' = 0
    /\ portStatus' = st
    /\ listeners' = <<>>
    /\ server' = "created"
    /\ cmd' = "starting"

\* activate() with autostart set.
Autostart(p, st) ==
    /\ cmd = "activate"
    /\ server = "null"
    /\ BeginStart(p, st)
    /\ UNCHANGED <<sessionVars, bpVars, connVars, probeVars,
                   isRunning, emitter, bound, registry>>

\* activate() with autostart not set.
NoAutostart ==
    /\ cmd = "activate"
    /\ cmd' = "none"
    /\ UNCHANGED <<sessionVars, bpVars, srvVars, connVars, probeVars,
                   port, attempt, portStatus, listeners, bound, registry>>

\* One attempt of the bind loop and what follows it without a further wait:
\* on success the callbacks of listen() and then, in startServer(),
\* registerWorkspacePorts(server.getPort()); on a bind conflict before the
\* last attempt the next iteration; on any other error, or a conflict in the
\* last attempt, the throw, on which startServer() calls server.stop().
BindAttempt ==
    /\ cmd = "starting"
    /\ LET portToTry == port + attempt
           ls == Append(listeners, portToTry)
       IN CASE portStatus[portToTry] = "free" ->
                 /\ server' = "listening"
                 /\ port' = RunListening(ls)
                 /\ isRunning' = TRUE
                 /\ bound' = portToTry
                 /\ listeners' = <<>>
                 /\ registry' = RegisterWorkspacePorts(registry, RunListening(ls))
                 /\ cmd' = "none"
                 /\ UNCHANGED <<attempt, emitter, transports>>
            [] portStatus[portToTry] = "EADDRINUSE" /\ attempt < MaxAttempts - 1 ->
                 /\ attempt' = attempt + 1
                 /\ listeners' = ls
                 /\ UNCHANGED <<srvVars, port, bound, cmd, registry, transports>>
            [] OTHER ->
                 /\ Stop
                 /\ listeners' = ls
                 /\ cmd' = "failing"
                 /\ UNCHANGED <<port, attempt, registry>>
    /\ UNCHANGED <<sessionVars, bpVars, probeVars, portStatus, shutdown>>

\* ------------------------------------------- start() and stop(), call by call
\* binding: a start() is in its bind loop; ran: a start() has succeeded and
\* no stop() has completed since; last: what the last start() came to;
\* ranThen: the value of ran when the last start() was called; calls: the
\* number of calls of start().
NoStarts == [binding |-> FALSE, ran |-> FALSE, last |-> "none", ranThen |-> FALSE,
             calls |-> 0]

\* Variant: start() is refused only while the server runs.
AlreadyRunningFlag == isRunning

\* if (this.server)
AlreadyRunning == server # "null"

\* start(), called while no other start() is in its bind loop, up to the
\* first attempt: 'Server is already running' is thrown, or the server is
\* created.  st is what the ports of the range give.
StartCall(st) ==
    /\ starts.calls < MaxStarts
    /\ ~starts.binding
    /\ IF AlreadyRunning
       THEN /\ starts' = [starts EXCEPT !.last = "refused", !.ranThen = starts.ran,
                                        !.calls = @ + 1]
            /\ UNCHANGED <<server, attempt, portStatus, listeners>>
       ELSE /\ server' = "created"
            /\ attempt' = 0
            /\ portStatus' = st
            /\ listeners' = <<>>
            /\ starts' = [starts EXCEPT !.binding = TRUE, !.last = "pending",
                                        !.ranThen = starts.ran, !.calls = @ + 1]
    /\ UNCHANGED <<sessionVars, bpVars, connVars, firstProbes, step, stale,
                   shared, sse, isRunning, emitter, port, bound, cmd, registry>>

\* One attempt of the bind loop of a start(): the callback of listen(), the
\* next iteration after a bind conflict, or the throw, which leaves
\* this.server as it is.
StartAttempt ==
    /\ starts.binding
    /\ LET portToTry == port + attempt
           ls == Append(listeners, portToTry)
       IN CASE portStatus[portToTry] = "free" ->
                 /\ server' = "listening"
                 /\ port' = RunListening(ls)
                 /\ isRunning' = TRUE
                 /\ bound' = portToTry
                 /\ listeners' = <<>>
                 /\ starts' = [starts EXCEPT !.binding = FALSE, !.ran = TRUE,
                                             !.last = "bound"]
                 /\ UNCHANGED attempt
            [] portStatus[portToTry] = "EADDRINUSE" /\ attempt < MaxAttempts - 1 ->
                 /\ attempt' = attempt + 1
                 /\ listeners' = ls
                 /\ UNCHANGED <<server, isRunning, port, bound, starts>>
            [] OTHER ->
                 /\ listeners' = ls
                 /\ starts' = [starts EXCEPT !.binding = FALSE, !.last = "failed"]
                 /\ UNCHANGED <<server, isRunning, port, bound, attempt>>
    /\ UNCHANGED <<sessionVars, bpVars, connVars, firstProbes, step, stale,
                   shared, sse, emitter, portStatus, cmd, registry>>

\* stop() is called while no start() is in its bind loop; without a server
\* it completes at once.
StopCall ==
    /\ ~starts.binding
    /\ Stop
    /\ starts' = IF server = "null" THEN [starts EXCEPT !.ran = FALSE] ELSE starts
    /\ UNCHANGED <<sessionVars, bpVars, firstProbes, step, stale, shared, sse,
                   shutdown, port, attempt, portStatus, listeners, cmd, registry>>

\* The callback of server.close(): the stop() has completed.
StopCloses ==
    /\ server = "closing"
    /\ server' = "null"
    /\ isRunning' = FALSE
    /\ starts' = [starts EXCEPT !.ran = FALSE]
    /\ UNCHANGED <<sessionVars, bpVars, connVars, firstProbes, step, stale,
                   shared, sse, emitter, lifeVars>>

\* ------------------------------------------- stop() and its callers
\* POST /shutdown: the handler answers 200 'Server shutting down' and
\* calls stop().
ServerStop ==
    /\ server = "listening"
    /\ shutdown' = "answered"
    /\ Stop
    /\ UNCHANGED <<sessionVars, bpVars, probeVars,
                   port, attempt, portStatus, listeners, cmd, registry>>

\* The stop command: server.stop().then(() => unregisterWorkspacePorts()).
StopCommand ==
    /\ cmd = "none"
    /\ Stop
    /\ IF server = "null"
       THEN registry' = UnregisterWorkspacePorts(registry) /\ cmd' = cmd
       ELSE registry' = registry /\ cmd' = "stopping"
    /\ UNCHANGED <<sessionVars, bpVars, probeVars, shutdown,
                   port, attempt, portStatus, listeners>>

\* The restart command: await server.stop(); await startServer().
RestartCommand(p, st) ==
    /\ cmd = "none"
    /\ emitter' = FALSE
    /\ bound' = NoPort
    /\ IF server = "null"
       THEN isRunning' = FALSE /\ BeginStart(p, st) /\ transports' = transports
       ELSE /\ server' = "closing"
            /\ cmd' = "restarting"
            /\ transports' = {}
            /\ UNCHANGED <<isRunning, port, attempt, portStatus, listeners>>
    /\ UNCHANGED <<sessionVars, bpVars, probeVars, registry, shutdown>>

\* The callback of server.close() ends with this.emit('stopped'): a
\* shutdown request that has been answered has then had its 'stopped'.
Emitted(sd) == IF sd = "answered" THEN "stopped" ELSE sd

\* The callback of server.close(): every connection has ended.  The stop
\* command goes on to unregister; a failed start and /shutdown do not.
ServerClosed ==
    /\ server = "closing"
    /\ cmd # "restarting"
    /\ \A c \in Calls : call[c].pc \in {"idle", "done"}
    /\ server' = "null"
    /\ isRunning' = FALSE
    /\ registry' = IF cmd = "stopping" THEN UnregisterWorkspacePorts(registry)
                   ELSE registry
    /\ cmd' = "none"
    /\ shutdown' = Emitted(shutdown)
    /\ UNCHANGED <<sessionVars, bpVars, probeVars, emitter, transports,
                   port, attempt, portStatus, listeners, bound>>

\* The callback of server.close() in the restart command, which goes on to
\* startServer().
RestartContinues(p, st) ==
    /\ server = "closing"
    /\ cmd = "restarting"
    /\ \A c \in Calls : call[c].pc \in {"idle", "done"}
    /\ isRunning' = FALSE
    /\ BeginStart(p, st)
    /\ shutdown' = Emitted(shutdown)
    /\ UNCHANGED <<sessionVars, bpVars, probeVars, emitter, bound, registry,
                   transports>>

\* The window closes: deactivate() runs and the extension host ends, and
\* with it the server.
Deactivate ==
    /\ cmd = "none"
    /\ \A c \in Calls : call[c].pc \in {"idle", "done"}
    /\ cmd' = "deactivated"
    /\ server' = "null"
    /\ isRunning' = FALSE
    /\ emitter' = FALSE
    /\ bound' = NoPort
    /\ transports' = {}
    /\ UNCHANGED <<sessionVars, bpVars, probeVars, shutdown,
                   port, attempt, portStatus, listeners, registry>>

\* ------------------------------------------- the tool schemas
Tools == {"debug_execute", "debug_breakpoints", "debug_inspect"}

\* debug-server.ts, the zod schemas registered with mcpServer.tool: per tool
\* the action enum, the property names, and the properties not optional().
ZodSchemas ==
    [debug_execute |->
        [actions |-> {"launch", "stop", "continue", "stepOver", "stepIn",
                      "stepOut", "listConfigurations"},
         props |-> {"action", "configurationName", "noDebug", "threadId",
                    "granularity"},
         required |-> {"action"}],
     debug_breakpoints |->
        [actions |-> {"set", "remove", "list"},
         props |-> {"action", "file", "line", "condition", "hitCondition",
                    "logMessage"},
         required |-> {"action"}],
     debug_inspect |->
        [actions |-> {"evaluate", "stackTrace"},
         props |-> {"action", "expression", "frameId", "context", "threadId",
                    "startFrame", "levels"},
         required |-> {"action"}]]

\* debug-server.ts, the tools list that /tcp serves for listTools: per tool
\* the enum of action, the keys of properties, and the required list.
TcpTools ==
    [debug_execute |->
        [actions |-> {"launch", "stop", "continue", "stepOver", "stepIn",
                      "stepOut", "listConfigurations"},
         props |-> {"action", "configurationName", "noDebug", "threadId",
                    "granularity"},
         required |-> {"action"}],
     debug_breakpoints |->
        [actions |-> {"set", "remove", "list"},
         props |-> {"action", "file", "line", "condition", "hitCondition",
                    "logMessage"},
         required |-> {"action"}],
     debug_inspect |->
        [actions |-> {"evaluate", "stackTrace"},
         props |-> {"action", "expression", "frameId", "context", "threadId",
                    "startFrame", "levels"},
         required |-> {"action"}]]

\* mcp/src/index.ts, the tools list that the stdio bridge serves.
BridgeTools ==
    [debug_execute |->
        [actions |-> {"launch", "stop", "continue", "stepOver", "stepIn",
                      "stepOut"},
         props |-> {"action", "configurationName", "noDebug", "threadId",
                    "granularity"},
         required |-> {"action"}],
     debug_breakpoints |->
        [actions |-> {"set", "remove", "list"},
         props |-> {"action", "file", "line", "condition", "hitCondition",
                    "logMessage"},
         required |-> {"action"}],
     debug_inspect |->
        [actions |-> {"evaluate", "stackTrace"},
         props |-> {"action", "expression", "frameId", "context", "threadId",
                    "startFrame", "levels"},
         required |-> {"action"}]]

Transports == {"stdio", "tcp", "sse"}
Aspects == {"names", "actions", "props", "required"}

\* The schemas a client of a transport is given.
SchemasOf(transport) ==
    CASE transport = "stdio" -> BridgeTools
      [] transport = "tcp" -> TcpTools
      [] transport = "sse" -> ZodSchemas

\* One aspect of the schemas of a transport: the tool names, or for one
\* tool its action enum, its property names or its required fields.
AspectOf(transport, tool, aspect) ==
    CASE aspect = "names" -> DOMAIN SchemasOf(transport)
      [] aspect = "actions" -> SchemasOf(transport)[tool].actions
      [] aspect = "props" -> SchemasOf(transport)[tool].props
      [] aspect = "required" -> SchemasOf(transport)[tool].required

\* A client reads one aspect of a tool from two transports.
SchemaCompare(a, b, tool, aspect) ==
    /\ drift' = [a |-> a, b |-> b, tool |-> tool, aspect |-> aspect,
                 left |-> AspectOf(a, tool, aspect),
                 right |-> AspectOf(b, tool, aspect)]
    /\ UNCHANGED <<sessionVars, bpVars, srvVars, lifeVars, connVars, parity, lookup,
                   channel, bridge, evald, laterProbes>>

\* ------------------------------------------- the two bindings of a tool
Undefined == "undefined"     \* the value of a property that is absent

\* Property access: o[k], undefined when o has no property k.
Get(o, k) == IF k \in DOMAIN o THEN o[k] ELSE Undefined

\* JSON.stringify of an object: properties whose value is undefined are
\* left out.  The text is modelled by the set of its members.
JsonText(o) == {<<k, o[k]>> : k \in {j \in DOMAIN o : o[j] # Undefined}}

\* JSON.parse of such a text.
JsonParse(text) ==
    [k \in {m[1] : m \in text} |-> (CHOOSE m \in text : m[1] = k)[2]]

\* The arguments the SSE handler receives: the SDK parses them with the
\* registered zod object schema, which keeps the properties of the schema.
ZodParse(tool, args) == [k \in ZodSchemas[tool].props |-> Get(args, k)]

\* The properties of args that each handler reads.
Reads(handler) ==
    CASE handler = "handleExecute" ->
            {"action", "configurationName", "granularity", "noDebug", "threadId"}
      [] handler = "handleBreakpoints" ->
            {"action", "condition", "file", "hitCondition", "line", "logMessage"}
      [] handler = "handleInspect" ->
            {"action", "context", "expression", "frameId", "levels",
             "startFrame", "threadId"}

\* What a handler does with its arguments in a host state: it returns an
\* object or it throws an error.  Both are determined by the handler, by the
\* properties it reads and by the host; host says which of the two happens.
HostStates == {"returns", "throws"}
HandlerOutcome(handler, args, host) ==
    IF host = "throws"
    THEN [kind |-> "thrown", message |-> <<handler, Get(args, "action")>>]
    ELSE [kind |-> "returned",
          value |-> [k \in Reads(handler) \cup {"handler"} |->
                        IF k = "handler" THEN handler ELSE Get(args, k)]]

SseHandlerAllExecute(tool) == "handleExecute"

\* The callbacks registered with mcpServer.tool.
SseHandler(tool) ==
    CASE tool = "debug_execute" -> "handleExecute"
      [] tool = "debug_breakpoints" -> "handleBreakpoints"
      [] tool = "debug_inspect" -> "handleInspect"

\* A tool call through the SSE binding: the callback resolves with one text
\* content, or its promise is rejected with the error of the handler.
SseCall(tool, args, host) ==
    LET out == HandlerOutcome(SseHandler(tool), ZodParse(tool, args), host)
    IN IF out.kind = "returned"
       THEN [kind |-> "content", text |-> JsonText(out.value)]
       ELSE [kind |-> "rejected", message |-> out.message]

\* handleCommand: the switch on request.tool for the three tools.
TcpHandler(tool) ==
    CASE tool = "debug_execute" -> "handleExecute"
      [] tool = "debug_breakpoints" -> "handleBreakpoints"
      [] tool = "debug_inspect" -> "handleInspect"

\* A callTool request on /tcp: the body of the response.
TcpCall(tool, args, host) ==
    LET out == HandlerOutcome(TcpHandler(tool), args, host)
    IN IF out.kind = "returned"
       THEN [success |-> TRUE, data |-> JsonText(out.value)]
       ELSE [success |-> FALSE, error |-> out.message]

\* The arguments of a call that the schema of the tool accepts: an action of
\* the enum, some of the optional properties, and possibly a property that
\* the schema does not name.
ValidArgs(tool) ==
    LET keys == (ZodSchemas[tool].props \ {"action"}) \cup {"extra"}
    IN {[k \in keys \cup {"action"} |->
            IF k = "action" THEN act ELSE IF k \in S THEN "v" ELSE Undefined] :
        act \in ZodSchemas[tool].actions,
        S \in {T \in SUBSET keys : Cardinality(T) <= MaxArgs}}

NoParity == [tool |-> "none"]

\* The same call is issued through both bindings in the same host state.
ParityCall(tool, args, host) ==
    /\ server = "listening"
    /\ parity' = [tool |-> tool, args |-> args, host |-> host,
                  sse |-> SseCall(tool, args, host),
                  tcp |-> TcpCall(tool, args, host)]
    /\ UNCHANGED <<sessionVars, bpVars, srvVars, lifeVars, connVars, drift, lookup,
                   channel, bridge, evald, laterProbes>>

\* ------------------------------------------- the host and the race events
\* History: event e of the race is noted for the calls in W for which no
\* event was noted yet.
Note(e, W) ==
    [c \in Calls |-> IF c \in W /\ first[c] = "none" THEN e ELSE first[c]]

\* The calls whose race is in progress on session s.
InFlight(s) == {c \in Calls : call[c].pc = "waiting" /\ call[c].session = s}

\* The user starts a debug session from the editor.
UserStartsSession ==
    /\ FreeSessions # {}
    /\ sess' = [sess EXCEPT ![NextSession] = "starting"]
    /\ UNCHANGED <<wsFolder, configs, launchedBy, active, call, first, bpVars, srvVars, lifeVars, connVars, probeVars>>

\* The host reports session s as started: it becomes the active session.
HostSessionStarted(s) ==
    /\ sess[s] = "starting"
    /\ sess' = [sess EXCEPT ![s] = "running"]
    /\ active' = s
    /\ UNCHANGED <<wsFolder, configs, launchedBy, call, first, bpVars, srvVars, lifeVars, connVars, probeVars>>

\* The debug adapter of session s sends a DAP 'stopped' event: the tracker
\* fires stoppedEmitter and every subscribed listener runs.
HostStopped(s, hasThread) ==
    /\ sess[s] = "running"
    /\ sess' = [sess EXCEPT ![s] = "stopped"]
    /\ call' = [c \in Calls |-> IF emitter /\ call[c].stoppedSub
                                THEN OnStopped(call[c], s, hasThread) ELSE call[c]]
    /\ first' = Note("stop", IF emitter THEN InFlight(s) ELSE {})
    /\ UNCHANGED <<wsFolder, configs, launchedBy, active, bpVars, srvVars, lifeVars, connVars, probeVars>>

\* The debuggee of session s resumes.
HostResumed(s) ==
    /\ sess[s] = "stopped"
    /\ sess' = [sess EXCEPT ![s] = "running"]
    /\ UNCHANGED <<wsFolder, configs, launchedBy, active, call, first, bpVars, srvVars, lifeVars, connVars, probeVars>>

\* Session s ends: onDidTerminateDebugSession fires, and the host moves the
\* active session to another live session if there is one.
HostTerminated(s) ==
    /\ sess[s] \in LiveStates
    /\ sess' = [sess EXCEPT ![s] = "terminated"]
    /\ LET others == {t \in Sessions \ {s} : sess[t] \in LiveStates}
       IN  IF active # s THEN active' = active
           ELSE IF others = {} THEN active' = NoSession
           ELSE active' \in others
    /\ call' = [c \in Calls |-> IF call[c].termSub
                                THEN OnTerminated(call[c], s) ELSE call[c]]
    /\ first' = Note("term", InFlight(s))
    /\ UNCHANGED <<wsFolder, configs, launchedBy, bpVars, srvVars, lifeVars, connVars, probeVars>>

\* Some stop call has asked the host to stop session s.
StopRequested(s) ==
    \E c \in Calls :
        call[c].action = "stop" /\ call[c].session = s /\ call[c].pc # "idle"

\* The host carries out stopDebugging(session): session s ends.
StopDebuggingEnds(s) ==
    /\ StopRequested(s)
    /\ HostTerminated(s)

\* Ten seconds have passed since call c armed its timer: the callback runs
\* unless clearTimeout cancelled it.
TimerDue(c) ==
    /\ \/ call[c].timer = "armed"
       \/ call[c].timer = "cleared" /\ call[c].pc = "waiting"
    /\ ~call[c].deadline
    /\ call' = [call EXCEPT ![c] =
                   IF @.timer = "armed"
                   THEN OnTimer([@ EXCEPT !.timer = "fired", !.deadline = TRUE])
                   ELSE [@ EXCEPT !.deadline = TRUE]]
    /\ first' = Note("timeout", IF call[c].timer = "armed" /\ call[c].pc = "waiting"
                               THEN {c} ELSE {})
    /\ UNCHANGED <<wsFolder, configs, sess, launchedBy, active, bpVars, srvVars, lifeVars, connVars, probeVars>>

\* The promise of executeFn() of a continue/step call settles.
StepActionSettles(c, ok) ==
    /\ call[c].act = "pending"
    /\ call[c].action \in StepActions
    /\ call' = [call EXCEPT ![c] =
                   IF ok THEN [@ EXCEPT !.act = "ok"]
                   ELSE OnActionFailed([@ EXCEPT !.act = "failed"])]
    /\ first' = Note("fail", IF ~ok /\ call[c].pc = "waiting" THEN {c} ELSE {})
    /\ UNCHANGED <<wsFolder, configs, sess, launchedBy, active, bpVars, srvVars, lifeVars, connVars, probeVars>>

\* The promise of startDebugging() settles: r = "true" (after the session
\* started), "false" or "reject" (the session could not be started).
StartDebuggingSettles(c, r) ==
    /\ call[c].act = "pending"
    /\ call[c].action = "launch"
    /\ IF r = "true"
       THEN sess[call[c].session] # "starting" /\ UNCHANGED sess
       ELSE /\ sess[call[c].session] = "starting"
            /\ sess' = [sess EXCEPT ![call[c].session] = "terminated"]
    /\ call' = [call EXCEPT ![c] =
                   IF r = "reject" THEN OnActionFailed([@ EXCEPT !.act = "failed"])
                   ELSE [@ EXCEPT !.act = "ok"]]
    /\ first' = Note("fail", IF r = "reject" /\ call[c].pc = "waiting" THEN {c} ELSE {})
    /\ UNCHANGED <<wsFolder, configs, launchedBy, active, bpVars, srvVars, lifeVars, connVars, probeVars>>

\* The stackTrace request of gatherStoppedState settles.
GatherSettles(c, r) ==
    /\ call[c].gather = "pending"
    /\ call' = [call EXCEPT ![c] = OnGathered(@, r)]
    /\ UNCHANGED <<wsFolder, configs, sess, launchedBy, active, first, bpVars, srvVars, lifeVars, connVars, probeVars>>

\* ------------------------------------------- the SSE endpoint
TransportIds == 1..MaxTransports

\* GET /sse: a transport is created and kept under its session id.
SseConnect(t) ==
    /\ server = "listening"
    /\ t \notin transports
    /\ transports' = transports \cup {t}
    /\ UNCHANGED <<sessionVars, bpVars, srvVars, lifeVars, probeVars, shutdown>>

\* res.on('close'): the client of an SSE connection has gone.
SseClose(t) ==
    /\ t \in transports
    /\ transports' = transports \ {t}
    /\ UNCHANGED <<sessionVars, bpVars, srvVars, lifeVars, probeVars, shutdown>>

\* ------------------------------------------- the stop-event channel
Subscribers == 1..MaxSubs

\* What a debug adapter sends: events and responses.
Messages == {[type |-> "event", event |-> "stopped"],
             [type |-> "event", event |-> "output"],
             [type |-> "response", event |-> Undefined]}

\* onDidSendMessage: message.type === 'event' && message.event === 'stopped'
Forwards(m) == m.type = "event" /\ m.event = "stopped"

\* Nothing sent, nobody subscribed.  sent: the messages of the adapters in
\* the order sent, each with its session and the subscribers that held a
\* subscription at that moment; subscribed: the callers that hold a
\* Disposable of stoppedEmitter.event(); registered: the listeners the
\* emitter holds; log: what each listener has been called with.
NoChannel == [sent |-> <<>>, subscribed |-> {}, registered |-> {},
              log |-> [k \in Subscribers |-> <<>>]]

\* stoppedEmitter.event(listener): a disposed emitter registers nothing.
ChannelSubscribe(k) ==
    /\ k \notin channel.subscribed
    /\ channel' = [channel EXCEPT !.subscribed = @ \cup {k},
                     !.registered = IF emitter THEN @ \cup {k} ELSE @]
    /\ UNCHANGED <<sessionVars, bpVars, srvVars, lifeVars, connVars,
                   parity, drift, lookup, bridge, evald, laterProbes>>

\* The Disposable of a subscription is disposed.
ChannelUnsubscribe(k) ==
    /\ k \in channel.subscribed
    /\ channel' = [channel EXCEPT !.subscribed = @ \ {k},
                                  !.registered = @ \ {k}]
    /\ UNCHANGED <<sessionVars, bpVars, srvVars, lifeVars, connVars,
                   parity, drift, lookup, bridge, evald, laterProbes>>

\* The adapter of session s sends message m: onDidSendMessage of the
\* tracker fires the emitter, which calls its listeners one after the
\* other; a disposed emitter calls nobody.
TrackerMessage(s, m) ==
    /\ Len(channel.sent) < MaxEvents
    /\ LET id == Len(channel.sent) + 1
           called == IF emitter /\ Forwards(m) THEN channel.registered ELSE {}
       IN channel' = [channel EXCEPT
              !.sent = Append(@, [session |-> s, msg |-> m,
                                  subscribed |-> channel.subscribed]),
              !.log = [k \in Subscribers |->
                         IF k \in called
                         THEN Append(@[k], [id |-> id, session |-> s])
                         ELSE @[k]]]
    /\ UNCHANGED <<sessionVars, bpVars, srvVars, lifeVars, connVars,
                   parity, drift, lookup, bridge, evald, laterProbes>>

\* ------------------------------------------- the stdio bridge: tool calls
NoBridge == [tool |-> "none"]

\* request.params.arguments: absent, or an object.
NoArguments == [given |-> FALSE]
Arguments(o) == [given |-> TRUE, value |-> o]

\* JSON.stringify of the payload {type, tool, arguments}: the arguments are
\* left out when undefined and written as their JSON otherwise.
PayloadText(tool, arguments) ==
    IF arguments.given
    THEN [type |-> "callTool", tool |-> tool,
          arguments |-> JsonText(arguments.value)]
    ELSE [type |-> "callTool", tool |-> tool]

\* What the server reads from the body: JSON.parse, then tool and arguments.
PayloadParse(text) ==
    [type |-> text.type, tool |-> text.tool,
     arguments |-> IF "arguments" \in DOMAIN text
                   THEN Arguments(JsonParse(text.arguments))
                   ELSE NoArguments]

\* The data of a reply: a string or an object.
StringData(v) == [t |-> "string", v |-> v]
ObjectData(o) == [t |-> "object", v |-> o]

\* The replies of /tcp, and the server that cannot be reached.
Replies ==
    {[success |-> TRUE, data |-> StringData("plain string response")],
     [success |-> TRUE, data |-> ObjectData([message |-> MsgSessionStopped])],
     [success |-> TRUE, data |-> ObjectData([result |-> "42", type |-> "number"])],
     [success |-> FALSE, error |-> MsgNoSession],
     [success |-> FALSE, error |-> MsgUnknownTool],
     [refused |-> TRUE]}

ErrorTextUnknown(e) == "Unknown error"

\* response.error || 'Unknown error'
ErrorText(e) == IF e \in {Undefined, ""} THEN "Unknown error" ELSE e

\* typeof response === 'string' ? response : JSON.stringify(response)
Text(data) == IF data.t = "string" THEN data.v ELSE JsonText(data.v)

\* makeRequest and the CallToolRequestSchema handler: what is sent where,
\* and what the client of the bridge gets for the reply.
Forward(p, tool, arguments, reply) ==
    [sent |-> [hostname |-> "localhost", port |-> p, path |-> "/tcp",
               method |-> "POST", body |-> PayloadText(tool, arguments)],
     result |-> IF "refused" \in DOMAIN reply
                THEN [isError |-> TRUE, message |-> "ECONNREFUSED"]
                ELSE IF reply.success
                THEN [isError |-> FALSE,
                      content |-> <<[type |-> "text", text |-> Text(reply.data)]>>]
                ELSE [isError |-> TRUE, message |-> ErrorText(reply.error)]]

BridgeRegistries ==
    {reg \in Registries :
        \A i \in DOMAIN reg : /\ reg[i].port = DefaultPort + i
                               /\ Len(reg[i].path) = 2 * i
                               /\ reg[i].path[Len(reg[i].path)] # "c"}
BridgeCwds == {cwd \in LookupPaths : cwd[Len(cwd)] # "c"}
CalledTools == Tools \cup {"bogus"}
BridgeArguments ==
    {NoArguments, Arguments([action |-> "list"]),
     Arguments([action |-> "evaluate", expression |-> "x + 1"])}

\* A client calls a tool through the stdio bridge, which was started in
\* directory cwd beside registry reg, and the server answers with reply.
BridgeCall(reg, cwd, tool, arguments, reply) ==
    /\ bridge' = [reg |-> reg, cwd |-> cwd, tool |-> tool,
                  arguments |-> arguments, reply |-> reply] @@
                 Forward(ReadPort("object", reg, cwd), tool, arguments, reply)
    /\ UNCHANGED <<sessionVars, bpVars, srvVars, lifeVars, connVars,
                   parity, drift, lookup, channel, evald, laterProbes>>

\* ------------------------------------------- handleInspect: evaluate
NoEval == [expression |-> "none"]

\* What the evaluate request of the adapter answers.
EvaluateResponses ==
    {[result |-> "10", type |-> "number", variablesReference |-> 0],
     [result |-> "undefined", type |-> "undefined", variablesReference |-> 0]}

Expressions == {"", "x", "console.log('captured')", "console.error('err-msg')"}

\* What the program writes while the expression is evaluated; the adapter
\* reports it in 'output' events.
Written == [stdout : {"", "captured"}, stderr : {"", "err-msg"}]

\* handleInspect({action: 'evaluate', expression, frameId}) with or without
\* an active session, for a stack of some or no frames.
Evaluate(hasSession, expression, frameId, frames, response) ==
    IF ~hasSession THEN [success |-> FALSE, error |-> MsgNoSessionPaused]
    ELSE IF expression \in {Undefined, ""}
    THEN [success |-> FALSE, error |-> MsgExprRequired]
    ELSE IF frameId = Undefined /\ frames = 0
    THEN [success |-> FALSE, error |-> "No stack frame available"]
    ELSE [success |-> TRUE,
          data |-> [result |-> response.result, type |-> response.type,
                    variablesReference |-> response.variablesReference]]

\* One evaluate: the program writes w while the adapter evaluates.
EvaluateCall(hasSession, expression, frameId, frames, response, w) ==
    /\ evald' = [hasSession |-> hasSession, expression |-> expression,
                 frameId |-> frameId, frames |-> frames,
                 response |-> response, written |-> w,
                 reply |-> Evaluate(hasSession, expression, frameId, frames,
                                    response)]
    /\ UNCHANGED <<sessionVars, bpVars, srvVars, lifeVars, connVars,
                   parity, drift, lookup, channel, bridge, laterProbes>>


\* ------------------------------------------- resolveThreadId and the command
NoStep == [action |-> "none"]
NoThread == -1       \* a thread id that is undefined
ThreadIds == 0..MaxThreads

\* What the threads request answers: some threads, none, or an error.
ThreadsAnswers ==
    {[ok |-> TRUE, threads |-> <<>>], [ok |-> TRUE, threads |-> <<1>>],
     [ok |-> TRUE, threads |-> <<2, 1>>], [ok |-> FALSE, threads |-> <<>>]}

\* Variant: the thread is always taken from a threads request.
ResolveThreadIdQueryFirst(explicit, item, answer) ==
    IF ~answer.ok THEN [ok |-> FALSE, error |-> MsgHostError, asked |-> TRUE]
    ELSE IF Len(answer.threads) > 0
    THEN [ok |-> TRUE, threadId |-> answer.threads[1], asked |-> TRUE]
    ELSE [ok |-> FALSE, error |-> MsgNoThreads, asked |-> TRUE]

\* resolveThreadId(session, explicit) when the thread of the host's active
\* stack item is item and the threads request, if made, answers answer.
\* asked: the threads request was made.
ResolveThreadId(explicit, item, answer) ==
    IF explicit # NoThread
    THEN [ok |-> TRUE, threadId |-> explicit, asked |-> FALSE]
    ELSE IF item # NoThread
    THEN [ok |-> TRUE, threadId |-> item, asked |-> FALSE]
    ELSE IF ~answer.ok
    THEN [ok |-> FALSE, error |-> MsgHostError, asked |-> TRUE]
    ELSE IF Len(answer.threads) > 0
    THEN [ok |-> TRUE, threadId |-> answer.threads[1], asked |-> TRUE]
    ELSE [ok |-> FALSE, error |-> MsgNoThreads, asked |-> TRUE]

ThreadArgs == {NoThread, 0, MaxThreads}
Granularities == {Undefined, "statement", "line", "instruction"}

DapCommand(action) ==
    CASE action = "continue" -> "continue"
      [] action = "stepOver" -> "next"
      [] action = "stepIn" -> "stepIn"
      [] action = "stepOut" -> "stepOut"

VscodeCommand(action) ==
    CASE action = "continue" -> "workbench.action.debug.continue"
      [] action = "stepOver" -> "workbench.action.debug.stepOver"
      [] action = "stepIn" -> "workbench.action.debug.stepInto"
      [] action = "stepOut" -> "workbench.action.debug.stepOut"

\* Variant: only an explicit thread id selects the direct request.
UseCustomRequestThreadOnly(action, threadArg, granularity) ==
    threadArg # NoThread

\* useCustomRequest
UseCustomRequest(action, threadArg, granularity) ==
    threadArg # NoThread \/ (granularity # Undefined /\ action # "continue")

\* executeFn: the request or command that the call issues.
ExecuteFn(action, threadArg, granularity, threadId) ==
    IF UseCustomRequest(action, threadArg, granularity)
    THEN [via |-> "customRequest", command |-> DapCommand(action),
          threadId |-> threadId,
          granularity |-> IF granularity # Undefined /\ action # "continue"
                          THEN granularity ELSE Undefined]
    ELSE [via |-> "executeCommand", command |-> VscodeCommand(action),
          threadId |-> NoThread, granularity |-> Undefined]

\* The continue/step case of handleExecute with an active session, up to
\* the call of executeFn.
StepDispatch(action, threadArg, granularity, item, answer) ==
    /\ LET t == ResolveThreadId(threadArg, item, answer)
       IN step' = [action |-> action, threadArg |-> threadArg,
                   granularity |-> granularity, item |-> item,
                   answer |-> answer, thread |-> t,
                   issued |-> IF t.ok
                              THEN ExecuteFn(action, threadArg, granularity,
                                             t.threadId)
                              ELSE [via |-> "none"]]
    /\ UNCHANGED <<sessionVars, bpVars, srvVars, lifeVars, connVars,
                   firstProbes, stale, shared, sse,
                   starts>>

\* ------------------------------------------- the registry of two windows
\* Two windows of the host share port-config.json in the global storage
\* directory.  Window 1 has the folder WsRoot, window 2 the folder PeerRoot;
\* each runs its own server on its own port.
Windows == {1, 2}
RootOf(w) == IF w = 1 THEN WsRoot ELSE PeerRoot
WindowPort(w) == DefaultPort + (w - 1)

\* The file, where each window is in registerWorkspacePorts or
\* unregisterWorkspacePorts, the registry each has read, and the last
\* update each has completed.
NoShared == [file |-> <<>>,
             pc   |-> [w \in Windows |-> "idle"],
             snap |-> [w \in Windows |-> <<>>],
             last |-> [w \in Windows |-> "none"]]

\* delete registry[path]
UnregisterOne(reg, path) ==
    LET Keep(e) == e.path # path IN SelectSeq(reg, Keep)

\* readPortRegistry() at the start of registerWorkspacePorts (op =
\* "register") or unregisterWorkspacePorts (op = "unregister") of window w.
\* A window registers when its server has started and unregisters when it
\* has stopped.
ReadPortRegistry(w, op) ==
    /\ shared.pc[w] = "idle"
    /\ op = "unregister" => shared.last[w] = "registered"
    /\ shared' = [shared EXCEPT !.pc[w] = op, !.snap[w] = shared.file]
    /\ UNCHANGED <<sessionVars, bpVars, srvVars, lifeVars, connVars,
                   firstProbes, step, stale, sse,
                   starts>>

\* The loop over the folders and writePortRegistry(registry) of window w.
WritePortRegistry(w) ==
    /\ shared.pc[w] # "idle"
    /\ shared' = [shared EXCEPT
           !.pc[w] = "idle",
           !.file = IF shared.pc[w] = "register"
                    THEN RegisterOne(shared.snap[w], RootOf(w), WindowPort(w))
                    ELSE UnregisterOne(shared.snap[w], RootOf(w)),
           !.last[w] = IF shared.pc[w] = "register" THEN "registered"
                       ELSE "unregistered"]
    /\ UNCHANGED <<sessionVars, bpVars, srvVars, lifeVars, connVars,
                   firstProbes, step, stale, sse,
                   starts>>

\* ------------------------------------------- /sse and /messages, step by step
\* The sessionId of a POST /messages: missing, a UUID (those of the
\* transports, and one that no transport has), or the name of a property
\* that every object inherits, such as 'constructor'.
Sids ==
    {[kind |-> "missing", id |-> 0], [kind |-> "inherited", id |-> 0]}
      \cup {[kind |-> "uuid", id |-> t] : t \in 1..(MaxTransports + 1)}

NoPost == [sid |-> [kind |-> "none", id |-> 0], open |-> FALSE, status |-> "none"]

\* table: the own keys of activeTransports; wire: the state of the client's
\* connection; setup: the handler awaits mcpServer.connect; listener: the
\* 'close' listener is registered; post: the last POST /messages.
NoSse == [table    |-> {},
          wire     |-> [t \in 1..MaxTransports |-> "none"],
          setup    |-> [t \in 1..MaxTransports |-> FALSE],
          listener |-> [t \in 1..MaxTransports |-> FALSE],
          stopped  |-> FALSE,
          post     |-> NoPost]

\* Variant: the table is looked up by own keys only.
TableHasOwn(table, sid) == sid.kind = "uuid" /\ sid.id \in table

\* this.activeTransports[sessionId] is truthy.  activeTransports is an
\* object literal, so the names of Object.prototype are found in it too.
TableHas(table, sid) ==
    \/ sid.kind = "inherited"
    \/ sid.kind = "uuid" /\ sid.id \in table

\* GET /sse, up to the await of mcpServer.connect(transport).
SseGet(t) ==
    /\ ~sse.stopped
    /\ sse.wire[t] = "none"
    /\ sse' = [sse EXCEPT !.table = @ \cup {t}, !.wire[t] = "open",
                          !.setup[t] = TRUE]
    /\ UNCHANGED <<sessionVars, bpVars, srvVars, lifeVars, connVars,
                   firstProbes, step, stale, shared,
                   starts>>

\* mcpServer.connect(transport) has settled: res.on('close', ...).
SseConnected(t) ==
    /\ sse.setup[t]
    /\ sse' = [sse EXCEPT !.setup[t] = FALSE, !.listener[t] = TRUE]
    /\ UNCHANGED <<sessionVars, bpVars, srvVars, lifeVars, connVars,
                   firstProbes, step, stale, shared,
                   starts>>

\* The connection of transport t closes: 'close' is emitted once, to the
\* listeners registered at that time.
SseResClose(t) ==
    /\ sse.wire[t] = "open"
    /\ sse' = [sse EXCEPT !.wire[t] = "closed",
                          !.table = IF sse.listener[t] THEN @ \ {t} ELSE @]
    /\ UNCHANGED <<sessionVars, bpVars, srvVars, lifeVars, connVars,
                   firstProbes, step, stale, shared,
                   starts>>

\* POST /messages?sessionId=sid: 404, or the request is handed to
\* handlePostMessage of the table's value, which throws when the value is
\* not a transport.
SsePost(sid) ==
    /\ ~sse.stopped
    /\ sse' = [sse EXCEPT !.post =
           [sid    |-> sid,
            open   |-> sid.kind = "uuid" /\ sid.id \in 1..MaxTransports
                          /\ sse.wire[sid.id] = "open",
            status |-> IF sid.kind = "missing" \/ ~TableHas(sse.table, sid)
                       THEN "404"
                       ELSE IF sid.kind = "uuid" THEN "handed" ELSE "threw"]]
    /\ UNCHANGED <<sessionVars, bpVars, srvVars, lifeVars, connVars,
                   firstProbes, step, stale, shared,
                   starts>>

\* stop(): every transport is closed and the table is emptied.
SseStop ==
    /\ ~sse.stopped
    /\ sse' = [sse EXCEPT !.stopped = TRUE, !.table = {},
                          !.wire = [t \in 1..MaxTransports |->
                                       IF @[t] = "open" THEN "closed" ELSE @[t]]]
    /\ UNCHANGED <<sessionVars, bpVars, srvVars, lifeVars, connVars,
                   firstProbes, step, stale, shared,
                   starts>>

\* ------------------------------------------- evaluate: the frame
NoFrame == -1        \* a frame id that is undefined
Stops == 0..MaxStops

\* The id of frame number i (1: the top frame) of the stop number g: the
\* adapter gives every stop new frame ids.
FrameId(g, i) == 10 * g + i

\* The stackFrames of a stackTrace response of n frames at stop g.
StackFrames(g, n) == [i \in 1..n |-> [id |-> FrameId(g, i)]]

\* Nothing evaluated yet.  gen: the number of the stop the program is at;
\* item: the frame id of the host's activeStackItem, which follows a stop
\* late; pc and arg: an evaluate call that awaits its stack trace; sent:
\* the last evaluate request, with the stop it was sent at.
NoSent == [frameId |-> NoFrame, gen |-> 0, arg |-> NoFrame, error |-> ""]
NoStale == [gen |-> 0, item |-> NoFrame, pc |-> "idle", sent |-> NoSent]

\* Variant: the frame of the host's active stack item is used if any.
TopFrameOfStackItem(item, frames) ==
    IF item # NoFrame THEN item ELSE frames[1].id

\* frameId = frames.stackFrames[0].id
TopFrame(item, frames) == frames[1].id

\* A continue or step has run and the program has stopped again; the
\* server has returned the stopped state and keeps none of it.
StaleExec ==
    /\ stale.gen < MaxStops
    /\ stale' = [stale EXCEPT !.gen = @ + 1]
    /\ UNCHANGED <<sessionVars, bpVars, srvVars, lifeVars, connVars,
                   firstProbes, step, shared, sse,
                   starts>>

\* The host brings its active stack item up to the stop.
StaleHostUpdates ==
    /\ stale.item # FrameId(stale.gen, 1)
    /\ stale' = [stale EXCEPT !.item = FrameId(stale.gen, 1)]
    /\ UNCHANGED <<sessionVars, bpVars, srvVars, lifeVars, connVars,
                   firstProbes, step, shared, sse,
                   starts>>

\* debug_inspect {action: 'evaluate', expression, frameId: arg}: with a
\* frame id the evaluate request goes out at once, without one the call
\* awaits a stack trace first.
EvalBegin(arg) ==
    /\ stale.pc = "idle"
    /\ stale' = IF arg # NoFrame
                THEN [stale EXCEPT !.sent = [frameId |-> arg, gen |-> stale.gen,
                                             arg |-> arg, error |-> ""]]
                ELSE [stale EXCEPT !.pc = "asking"]
    /\ UNCHANGED <<sessionVars, bpVars, srvVars, lifeVars, connVars,
                   firstProbes, step, shared, sse,
                   starts>>

\* The stack trace arrives with n frames of the stop the program is at,
\* and the call sends its evaluate request or throws.
EvalFrames(n) ==
    /\ stale.pc = "asking"
    /\ stale' = [stale EXCEPT
          !.pc = "idle",
          !.sent = IF n = 0
                   THEN [NoSent EXCEPT !.gen = stale.gen,
                                       !.error = "No stack frame available"]
                   ELSE [frameId |-> TopFrame(stale.item,
                                              StackFrames(stale.gen, n)),
                         gen |-> stale.gen, arg |-> NoFrame, error |-> ""]]
    /\ UNCHANGED <<sessionVars, bpVars, srvVars, lifeVars, connVars,
                   firstProbes, step, shared, sse,
                   starts>>

\* ------------------------------------------- the specification
\* The arguments that the calls of debug_breakpoints are drawn from.
ConfiguredPorts == {0, DefaultPort + 1}
PeerPorts == {DefaultPort + 2}
NoDrift == [tool |-> "none"]
NoLookup == [cwd |-> <<>>]
FileArgs == {NoFile, File("", "/w/a.js"), File("", "/w/b.js"), File("C", "\\w\\a.js")}
LineArgs == -1..MaxLine
OptArgs == {<<NoOpt, NoOpt, NoOpt>>, <<"c", "h", "m">>}
\* remove is also called with a file as list reports it.
RemoveFileArgs == FileArgs \cup {FsPath(f) : f \in FileArgs}

Init ==
    /\ wsFolder \in BOOLEAN
    /\ configs \in {[i \in 1..n |-> i] : n \in 0..MaxConfigs}
    /\ (~wsFolder => configs = <<>>)
    /\ sess = [s \in Sessions |-> "absent"]
    /\ launchedBy = [s \in Sessions |-> 0]
    /\ active = NoSession
    /\ call = [c \in Calls |-> IdleCall]
    /\ first = [c \in Calls |-> "none"]
    /\ store = <<>>
    /\ expected = <<>>
    /\ listed = NoList
    /\ bpReply = NoReply
    /\ server \in {"null", "listening"}
    /\ isRunning = (server = "listening")
    /\ emitter = TRUE
    /\ port = DefaultPort
    /\ attempt = 0
    /\ portStatus = AllFree(DefaultPort)
    /\ listeners = <<>>
    /\ bound = (IF server = "listening" THEN DefaultPort ELSE NoPort)
    /\ cmd = (IF server = "listening" THEN "none" ELSE "activate")
    /\ registry = (IF server = "listening"
                   THEN RegisterWorkspacePorts(<<>>, DefaultPort) ELSE <<>>)
    /\ parity = NoParity
    /\ drift = NoDrift
    /\ lookup = NoLookup
    /\ transports = {}
    /\ shutdown = "none"
    /\ channel = NoChannel
    /\ bridge = NoBridge
    /\ evald = NoEval
    /\ step = NoStep
    /\ stale = NoStale
    /\ shared = NoShared
    /\ sse = NoSse
    /\ starts = [NoStarts EXCEPT !.ran = (server = "listening")]

Next ==
    \/ \E c \in Calls, n \in 0..(MaxConfigs + 1) : CallLaunch(c, n)
    \/ \E c \in Calls : CallStop(c)
    \/ \E c \in Calls, ok \in BOOLEAN : StopSettles(c, ok)
    \/ \E c \in Calls, a \in StepActions, d \in BOOLEAN : CallStep(c, a, d)
    \/ \E c \in Calls, r \in {"ok", "empty", "fail"} : ThreadsAnswer(c, r)
    \/ \E c \in Calls, a \in InspectActions \cup {"bogus"}, e \in BOOLEAN :
          CallInspect(c, a, e)
    \/ \E c \in Calls, ok \in BOOLEAN : InspectSettles(c, ok)
    \/ UserStartsSession
    \/ \E s \in Sessions : HostSessionStarted(s)
    \/ \E s \in Sessions, t \in BOOLEAN : HostStopped(s, t)
    \/ \E s \in Sessions : HostResumed(s)
    \/ \E s \in Sessions : HostTerminated(s)
    \/ \E c \in Calls : TimerDue(c)
    \/ \E c \in Calls, ok \in BOOLEAN : StepActionSettles(c, ok)
    \/ \E c \in Calls, r \in {"true", "false", "reject"} : StartDebuggingSettles(c, r)
    \/ \E c \in Calls, r \in {"frames", "empty", "fail"} : GatherSettles(c, r)
    \/ \E f \in FileArgs, l \in LineArgs, o \in OptArgs, x \in BOOLEAN :
          BpSet(f, l, o[1], o[2], o[3], x)
    \/ \E f \in RemoveFileArgs, l \in LineArgs : BpRemove(f, l)
    \/ BpList
    \/ BpUnknown
    \/ \E c \in Calls : CallUnknownTool(c)
    \/ \E c \in Calls : CallExecuteUnknown(c)
    \/ \E c \in Calls, b \in OtherBodies : TcpRequest(c, b)
    \/ ServerStop
    \/ ServerClosed
    \/ \E t \in TransportIds : SseConnect(t)
    \/ \E t \in TransportIds : SseClose(t)
    \/ \E k \in Subscribers : ChannelSubscribe(k)
    \/ \E k \in Subscribers : ChannelUnsubscribe(k)
    \/ \E s \in Sessions, m \in Messages : TrackerMessage(s, m)
    \/ \E reg \in BridgeRegistries, cwd \in BridgeCwds, tool \in CalledTools :
          \E arguments \in BridgeArguments, reply \in Replies :
             BridgeCall(reg, cwd, tool, arguments, reply)
    \/ \E h \in BOOLEAN, e \in Expressions, f \in {Undefined, "1"}, n \in 0..1 :
          \E r \in EvaluateResponses, w \in Written :
             EvaluateCall(h, e, f, n, r, w)
    \/ \E a \in StepActions, t \in ThreadArgs, g \in Granularities :
          \E item \in ThreadArgs, answer \in ThreadsAnswers :
             StepDispatch(a, t, g, item, answer)
    \/ StaleExec
    \/ StaleHostUpdates
    \/ \E g \in Stops : EvalBegin(FrameId(g, 1))
    \/ EvalBegin(NoFrame)
    \/ \E n \in 0..2 : EvalFrames(n)
    \/ \E q \in PeerPorts : PeerRegisters(q)
    \/ cmd = "activate" /\ \E p \in ConfiguredPorts :
          \E st \in [PortRange(SetPort(p)) -> Statuses] : Autostart(p, st)
    \/ NoAutostart
    \/ BindAttempt
    \/ StopCommand
    \/ cmd = "none" /\ \E p \in ConfiguredPorts :
          \E st \in [PortRange(SetPort(p)) -> Statuses] : RestartCommand(p, st)
    \/ cmd = "restarting" /\ \E p \in ConfiguredPorts :
          \E st \in [PortRange(SetPort(p)) -> Statuses] : RestartContinues(p, st)
    \/ Deactivate
    \/ \E tool \in Tools, host \in HostStates :
          \E args \in ValidArgs(tool) : ParityCall(tool, args, host)
    \/ \E a \in Transports, b \in Transports, tool \in Tools, x \in Aspects :
          SchemaCompare(a, b, tool, x)
    \/ \E file \in FileStates, reg \in FileRegistries, cwd \in LookupPaths :
          BridgeLookup(file, reg, cwd)

Spec == Init /\ [][Next]_vars

\* ------------------------------------------- views of the specification
\* Each view keeps some disjuncts of Next and some of their inputs, so every
\* behaviour of a view is a behaviour of Spec.

\* The race of executeAndWaitForStop: continue/step calls on sessions that
\* the user started, with every host event of the race.
RaceActions == {"continue", "stepOver"}
InitServing == Init /\ server = "listening"
InitRace == InitServing /\ wsFolder /\ configs = <<1>>

NextRace ==
    \/ \E c \in Calls, a \in RaceActions, d \in BOOLEAN : CallStep(c, a, d)
    \/ \E c \in Calls, r \in {"ok", "empty", "fail"} : ThreadsAnswer(c, r)
    \/ UserStartsSession
    \/ \E s \in Sessions : HostSessionStarted(s)
    \/ \E s \in Sessions : HostStopped(s, TRUE)
    \/ \E s \in Sessions : HostResumed(s)
    \/ \E s \in Sessions : HostTerminated(s)
    \/ \E c \in Calls : TimerDue(c)
    \/ \E c \in Calls, ok \in BOOLEAN : StepActionSettles(c, ok)
    \/ \E c \in Calls, r \in {"frames", "empty", "fail"} : GatherSettles(c, r)

SpecRace == InitRace /\ [][NextRace]_vars

\* The host answers every request it was sent, and a timer that is due runs.
HostAnswers ==
    \A c \in Calls :
        /\ WF_vars(\E r \in {"ok", "empty", "fail"} : ThreadsAnswer(c, r))
        /\ WF_vars(\E r \in {"frames", "empty", "fail"} : GatherSettles(c, r))
        /\ WF_vars(TimerDue(c))

FairRace == SpecRace /\ HostAnswers

\* The launch action: launch calls that may overlap, sessions that the user
\* starts, and every host event of the race of waitForLaunchResult.
NextLaunch ==
    \/ \E c \in Calls, n \in 0..(MaxConfigs + 1) : CallLaunch(c, n)
    \/ UserStartsSession
    \/ \E s \in Sessions : HostSessionStarted(s)
    \/ \E s \in Sessions, t \in BOOLEAN : HostStopped(s, t)
    \/ \E s \in Sessions : HostResumed(s)
    \/ \E s \in Sessions : HostTerminated(s)
    \/ \E c \in Calls : TimerDue(c)
    \/ \E c \in Calls, r \in {"true", "false", "reject"} : StartDebuggingSettles(c, r)
    \/ \E c \in Calls, r \in {"frames", "empty", "fail"} : GatherSettles(c, r)

SpecLaunch == InitServing /\ [][NextLaunch]_vars

\* The dispatch of the session-bound actions: stop, the four continue/step
\* actions and debug_inspect, on sessions that the user starts and that end.
NextDispatch ==
    \/ \E c \in Calls : CallStop(c)
    \/ \E c \in Calls, ok \in BOOLEAN : StopSettles(c, ok)
    \/ \E c \in Calls, a \in StepActions, d \in BOOLEAN : CallStep(c, a, d)
    \/ \E c \in Calls, r \in {"ok", "empty", "fail"} : ThreadsAnswer(c, r)
    \/ \E c \in Calls, a \in InspectActions \cup {"bogus"}, e \in BOOLEAN :
          CallInspect(c, a, e)
    \/ \E c \in Calls, ok \in BOOLEAN : InspectSettles(c, ok)
    \/ UserStartsSession
    \/ \E s \in Sessions : HostSessionStarted(s)
    \/ \E s \in Sessions : HostStopped(s, TRUE)
    \/ \E s \in Sessions : HostTerminated(s)
    \/ \E c \in Calls : TimerDue(c)
    \/ \E c \in Calls, r \in {"frames", "empty", "fail"} : GatherSettles(c, r)

SpecDispatch == InitRace /\ [][NextDispatch]_vars

\* The breakpoint store: set, remove and list calls in any order.
NextBreakpoints ==
    \/ \E f \in FileArgs, l \in LineArgs, o \in OptArgs, x \in BOOLEAN :
          BpSet(f, l, o[1], o[2], o[3], x)
    \/ \E f \in RemoveFileArgs, l \in LineArgs : BpRemove(f, l)
    \/ BpList

SpecBreakpoints == InitRace /\ [][NextBreakpoints]_vars

\* Validation: calls that fail a check of the dispatcher or of a handler,
\* among breakpoint calls that succeed and sessions that come and go.
ValidationFiles == {NoFile, File("", "/w/a.js")}
ValidationLines == {NoLineArg, 1}

NextValidation ==
    \/ \E c \in Calls : CallUnknownTool(c)
    \/ \E c \in Calls : CallExecuteUnknown(c)
    \/ \E c \in Calls, a \in InspectActions \cup {"bogus"}, e \in BOOLEAN :
          CallInspect(c, a, e)
    \/ \E c \in Calls, ok \in BOOLEAN : InspectSettles(c, ok)
    \/ \E f \in ValidationFiles, l \in ValidationLines :
          BpSet(f, l, NoOpt, NoOpt, NoOpt, TRUE)
    \/ \E f \in ValidationFiles, l \in ValidationLines : BpRemove(f, l)
    \/ BpUnknown
    \/ UserStartsSession
    \/ \E s \in Sessions : HostSessionStarted(s)
    \/ \E s \in Sessions : HostStopped(s, TRUE)
    \/ \E s \in Sessions : HostTerminated(s)

SpecValidation == InitRace /\ [][NextValidation]_vars

\* Serving: /tcp requests of every kind, some of which fail, while other
\* calls are in flight, and a stop() of the server.
NextServe ==
    \/ \E c \in Calls : CallLaunch(c, NoName)
    \/ \E c \in Calls, r \in {"true", "false", "reject"} : StartDebuggingSettles(c, r)
    \/ \E c \in Calls, d \in BOOLEAN : CallStep(c, "continue", d)
    \/ \E c \in Calls, r \in {"ok", "empty", "fail"} : ThreadsAnswer(c, r)
    \/ \E c \in Calls : CallInspect(c, "evaluate", TRUE)
    \/ \E c \in Calls, ok \in BOOLEAN : InspectSettles(c, ok)
    \/ \E c \in Calls : CallUnknownTool(c)
    \/ \E c \in Calls, b \in OtherBodies : TcpRequest(c, b)
    \/ UserStartsSession
    \/ \E s \in Sessions : HostSessionStarted(s)
    \/ \E s \in Sessions : HostStopped(s, TRUE)
    \/ \E s \in Sessions : HostTerminated(s)
    \/ \E c \in Calls : TimerDue(c)
    \/ \E c \in Calls, ok \in BOOLEAN : StepActionSettles(c, ok)
    \/ \E c \in Calls, r \in {"frames", "empty", "fail"} : GatherSettles(c, r)
    \/ ServerStop
    \/ ServerClosed

SpecServe == InitRace /\ [][NextServe]_vars

\* Parity: calls with valid arguments issued through both bindings.
NextParity ==
    \E tool \in Tools, host \in HostStates :
       \E args \in ValidArgs(tool) : ParityCall(tool, args, host)

SpecParity == InitRace /\ [][NextParity]_vars

\* Schemas: every aspect of every tool read from every pair of transports.
NextSchemas ==
    \E a \in Transports, b \in Transports, tool \in Tools, x \in Aspects :
       SchemaCompare(a, b, tool, x)

SpecSchemas == InitRace /\ [][NextSchemas]_vars

\* Lookups of the stdio bridge, for every registry and working directory.
NextLookup ==
    \E reg \in Registries, cwd \in LookupPaths : BridgeLookup("object", reg, cwd)

SpecLookup == InitRace /\ [][NextLookup]_vars

\* Lookups in files of every state and either layout.
NextLookupFile ==
    \/ \E reg \in FileRegistries, cwd \in LookupPaths :
          BridgeLookup("object", reg, cwd)
    \/ \E file \in FileStates \ {"object"}, cwd \in LookupPaths :
          BridgeLookup(file, <<>>, cwd)

SpecLookupFile == InitRace /\ [][NextLookupFile]_vars

\* Binding: activation with autostart, for every configured port and every
\* state of the ten ports of its range.
InitBind == Init /\ server = "null" /\ wsFolder /\ configs = <<1>>

NextBind ==
    \/ cmd = "activate" /\ \E p \in ConfiguredPorts :
          \E st \in [PortRange(SetPort(p)) -> Statuses] : Autostart(p, st)
    \/ BindAttempt
    \/ ServerClosed

SpecBind == InitBind /\ [][NextBind]_vars

\* Life cycle: activation, the stop and restart commands, /shutdown, the
\* closing of the window, and another window writing the registry.  The
\* first port of the range is free, taken or refused; the others are all
\* free or all taken.
LifeStatuses(p) ==
    {[q \in PortRange(p) |-> IF q = p THEN a ELSE b] :
        a \in Statuses, b \in {"free", "EADDRINUSE"}}

InitLife == Init /\ wsFolder /\ configs = <<1>>

NextLife ==
    \/ \E p \in ConfiguredPorts :
          \E st \in LifeStatuses(SetPort(p)) : Autostart(p, st)
    \/ NoAutostart
    \/ BindAttempt
    \/ StopCommand
    \/ \E p \in ConfiguredPorts :
          \E st \in LifeStatuses(SetPort(p)) : RestartCommand(p, st)
    \/ \E p \in ConfiguredPorts :
          \E st \in LifeStatuses(SetPort(p)) : RestartContinues(p, st)
    \/ ServerStop
    \/ ServerClosed
    \/ Deactivate
    \/ \E q \in PeerPorts : PeerRegisters(q)

SpecLife == InitLife /\ [][NextLife]_vars

\* POST /shutdown while tool calls are in flight and SSE clients are
\* connected.
NextShutdown ==
    \/ \E c \in Calls : CallStep(c, "continue", TRUE)
    \/ UserStartsSession
    \/ \E s \in Sessions : HostSessionStarted(s)
    \/ \E s \in Sessions : HostStopped(s, TRUE)
    \/ \E s \in Sessions : HostTerminated(s)
    \/ \E c \in Calls : TimerDue(c)
    \/ \E c \in Calls, ok \in BOOLEAN : StepActionSettles(c, ok)
    \/ \E c \in Calls, r \in {"frames", "empty", "fail"} : GatherSettles(c, r)
    \/ \E t \in TransportIds : SseConnect(t)
    \/ \E t \in TransportIds : SseClose(t)
    \/ ServerStop
    \/ ServerClosed

SpecShutdown == InitRace /\ [][NextShutdown]_vars

\* The host answers, timers run, and Node calls the callback of
\* server.close() once the last connection has ended.
FairShutdown == SpecShutdown /\ HostAnswers /\ WF_vars(ServerClosed)

\* The stop-event channel: subscribers come and go while the adapters send
\* messages, and the server is shut down and restarted.
NextChannel ==
    \/ \E k \in Subscribers : ChannelSubscribe(k)
    \/ \E k \in Subscribers : ChannelUnsubscribe(k)
    \/ \E s \in Sessions, m \in Messages : TrackerMessage(s, m)
    \/ ServerStop
    \/ ServerClosed
    \/ RestartCommand(0, AllFree(DefaultPort))
    \/ RestartContinues(0, AllFree(DefaultPort))
    \/ BindAttempt

SpecChannel == InitRace /\ [][NextChannel]_vars

\* Tool calls through the stdio bridge.
NextBridge ==
    \E reg \in BridgeRegistries, cwd \in BridgeCwds, tool \in CalledTools :
       \E arguments \in BridgeArguments, reply \in Replies :
          BridgeCall(reg, cwd, tool, arguments, reply)

SpecBridge == InitRace /\ [][NextBridge]_vars

\* Evaluations of expressions that write or do not write.
NextEvaluate ==
    \E h \in BOOLEAN, e \in Expressions, f \in {Undefined, "1"}, n \in 0..1 :
       \E r \in EvaluateResponses, w \in Written :
          EvaluateCall(h, e, f, n, r, w)

SpecEvaluate == InitRace /\ [][NextEvaluate]_vars

\* Both races: continue calls and launch calls that wait for a stop, with
\* every host event of either race.
NextWait ==
    \/ \E c \in Calls : CallLaunch(c, 0)
    \/ \E c \in Calls : CallStep(c, "continue", TRUE)
    \/ UserStartsSession
    \/ \E s \in Sessions : HostSessionStarted(s)
    \/ \E s \in Sessions, t \in BOOLEAN : HostStopped(s, t)
    \/ \E s \in Sessions : HostResumed(s)
    \/ \E s \in Sessions : HostTerminated(s)
    \/ \E c \in Calls : TimerDue(c)
    \/ \E c \in Calls, ok \in BOOLEAN : StepActionSettles(c, ok)
    \/ \E c \in Calls, r \in {"true", "false", "reject"} : StartDebuggingSettles(c, r)
    \/ \E c \in Calls, r \in {"frames", "empty", "fail"} : GatherSettles(c, r)

SpecWait == InitRace /\ [][NextWait]_vars

\* Continue and step calls with every combination of thread argument,
\* granularity, active stack item and answer of the threads request.
NextStepDispatch ==
    \E a \in StepActions, t \in ThreadArgs, g \in Granularities :
       \E item \in ThreadArgs, answer \in ThreadsAnswers :
          StepDispatch(a, t, g, item, answer)

SpecStepDispatch == InitRace /\ [][NextStepDispatch]_vars

\* Evaluations between stops of the program, with a host whose active
\* stack item follows late.
NextStale ==
    \/ StaleExec
    \/ StaleHostUpdates
    \/ \E g \in Stops : EvalBegin(FrameId(g, 1))
    \/ EvalBegin(NoFrame)
    \/ \E n \in 0..2 : EvalFrames(n)

SpecStale == InitRace /\ [][NextStale]_vars

\* Continue calls and sessions before and after a restart of the server.
NextRestart ==
    \/ RestartCommand(0, AllFree(DefaultPort))
    \/ RestartContinues(0, AllFree(DefaultPort))
    \/ BindAttempt
    \/ \E c \in Calls : CallStep(c, "continue", TRUE)
    \/ UserStartsSession
    \/ \E s \in Sessions : HostSessionStarted(s)
    \/ \E s \in Sessions : HostStopped(s, TRUE)
    \/ \E s \in Sessions : HostResumed(s)
    \/ \E c \in Calls : TimerDue(c)
    \/ \E c \in Calls, r \in {"frames", "empty", "fail"} : GatherSettles(c, r)

SpecRestart == InitRace /\ [][NextRestart]_vars

\* A stop call beside continue calls on the same session.
NextStopping ==
    \/ \E c \in Calls : CallStep(c, "continue", TRUE)
    \/ \E c \in Calls : CallStop(c)
    \/ \E c \in Calls : StopSettles(c, TRUE)
    \/ \E s \in Sessions : StopDebuggingEnds(s)
    \/ UserStartsSession
    \/ \E s \in Sessions : HostSessionStarted(s)
    \/ \E s \in Sessions : HostStopped(s, TRUE)
    \/ \E s \in Sessions : HostResumed(s)
    \/ \E c \in Calls : TimerDue(c)
    \/ \E c \in Calls, ok \in BOOLEAN : StepActionSettles(c, ok)
    \/ \E c \in Calls, r \in {"frames", "empty", "fail"} : GatherSettles(c, r)

SpecStopping == InitRace /\ [][NextStopping]_vars

\* The host settles stopDebugging and ends the session it was asked to stop.
FairStopping ==
    /\ SpecStopping
    /\ HostAnswers
    /\ \A c \in Calls : WF_vars(StopSettles(c, TRUE))
    /\ \A s \in Sessions : WF_vars(StopDebuggingEnds(s))

\* SSE connections that open and close, POSTs to /messages, and stop().
NextSse ==
    \/ \E t \in TransportIds : SseGet(t)
    \/ \E t \in TransportIds : SseConnected(t)
    \/ \E t \in TransportIds : SseResClose(t)
    \/ \E sid \in Sids : SsePost(sid)
    \/ SseStop

SpecSse == InitServing /\ [][NextSse]_vars

\* start() and stop() called in any order on one DebugServer, with SSE
\* connections that come and go.
NextStart ==
    \/ \E st \in LifeStatuses(port) : StartCall(st)
    \/ StartAttempt
    \/ StopCall
    \/ StopCloses
    \/ \E t \in TransportIds : SseConnect(t)
    \/ \E t \in TransportIds : SseClose(t)

SpecStart == Init /\ [][NextStart]_vars

\* The registry file under the updates of two windows.
NextShared ==
    \/ \E w \in Windows, op \in {"register", "unregister"} :
          ReadPortRegistry(w, op)
    \/ \E w \in Windows : WritePortRegistry(w)

SpecShared == Init /\ [][NextShared]_vars

\* ------------------------------------------- properties: the race
IsStep(c) == call[c].action \in StepActions

\* The outcomes that each first event of the race may produce.
OutcomesOf(e) ==
    CASE e = "none" -> {"none"}
      [] e = "stop" -> {"none", "stopped", "stopfail"}
      [] e = "term" -> {"terminated"}
      [] e = "timeout" -> {"timeout"}
      [] e = "fail" -> {"execfail"}

\* C1: executeAndWaitForStop produces one outcome per call.  resolve() is
\* called at most once; the outcome is the one that belongs to the first of
\* the stop event, the termination, the timer and the failure of the action
\* to occur for the call's session; once that first event has occurred the
\* outcome exists (for a stop event: as soon as the stack query has
\* settled), and no later event changes it.
C1_OneOutcome ==
    \A c \in Calls : IsStep(c) =>
        /\ call[c].resolves <= 1
        /\ call[c].outcome \in OutcomesOf(first[c])
        /\ (call[c].outcome = "none") <=>
               (first[c] = "none" \/ call[c].gather = "pending")
        /\ (call[c].outcome # "none") <=> (call[c].resolves = 1)

\* A stop event decided the call; afterwards the action failed and the
\* session terminated, and the outcome is still the stop.
C1_Witness ==
    \E c \in Calls :
        /\ IsStep(c) /\ first[c] = "stop" /\ call[c].outcome = "stopped"
        /\ call[c].act = "failed" /\ sess[call[c].session] = "terminated"

\* C2: executeAndWaitForStop has resolved by the time its 10-second timer
\* would fire, whatever the host does.
C2_TimeBounded ==
    \A c \in Calls : (IsStep(c) /\ call[c].deadline) => call[c].outcome # "none"

\* C3: when the session of a continue/step call terminates while the call
\* waits, with no stop event before it and before the timer fires (the
\* termination is the first event of the race), the call reports
\* 'Debug session terminated', not the timeout message.
C3_TerminationReported ==
    \A c \in Calls : (IsStep(c) /\ first[c] = "term") =>
        /\ call[c].pc = "done"
        /\ call[c].result = Success(MsgTerminated)
        /\ call[c].result.msg # MsgTimeout

\* A continue on a session that was never stopped during the call ends with
\* the termination message before ten seconds have passed.
C3_Witness ==
    \E c \in Calls :
        /\ call[c].action = "continue" /\ first[c] = "term"
        /\ call[c].result = Success(MsgTerminated)
        /\ call[c].timer = "cleared" /\ ~call[c].deadline

\* ------------------------------------------- properties: launch
IsLaunch(c) == call[c].action = "launch"

\* The step in which call c is dispatched as a launch.
LaunchStep(c) == call[c].pc = "idle" /\ call'[c].action = "launch"

\* Sessions begun by a launch call that are being started or are active.
LaunchedLive ==
    {s \in Sessions : launchedBy[s] # 0 /\ sess[s] \in {"starting"} \cup LiveStates}

\* C4: at most one debug session started through the launch action is
\* active or being started at any time, also when two launch calls overlap.
C4_OneLaunchedSession == Cardinality(LaunchedLive) <= 1

\* C5 as claimed: every launch issued while the host reports an active
\* session returns 'Debug session already active', starts nothing and
\* leaves the sessions unchanged.
C5_ActiveLaunchRejected ==
    [][\A c \in Calls : (LaunchStep(c) /\ active # NoSession) =>
          /\ call'[c].result = Success(MsgAlreadyActive)
          /\ ~call'[c].commanded
          /\ UNCHANGED <<sess, active, launchedBy>>]_vars

\* C5 as amended: a launch issued while the host reports an active session
\* starts nothing, registers nothing and leaves the sessions unchanged; it
\* returns 'Debug session already active' when its configuration resolves,
\* and the result of the configuration resolution otherwise.
C5_ActiveLaunchStartsNothing ==
    [][\A c \in Calls : (LaunchStep(c) /\ active # NoSession) =>
          LET r == ResolveLaunchConfig(wsFolder, configs, call'[c].name)
          IN  /\ call'[c].pc = "done"
              /\ ~call'[c].commanded
              /\ call'[c].timer = "none"
              /\ ~call'[c].stoppedSub /\ ~call'[c].termSub
              /\ UNCHANGED <<sess, active, launchedBy>>
              /\ call'[c].result = IF r.kind = "config"
                                   THEN Success(MsgAlreadyActive) ELSE r.reply]_vars

\* A launch was rejected as 'already active' and the session is still there.
C5_Witness ==
    \E c \in Calls :
        /\ IsLaunch(c) /\ call[c].result = Success(MsgAlreadyActive)
        /\ active # NoSession /\ sess[active] = "stopped"
        /\ \A s \in Sessions : launchedBy[s] # c

\* The call has started a session: listeners and timer were registered and
\* startDebugging was called with configuration cfg.
StartedWith(cr, cfg) ==
    /\ cr.pc = "waiting" /\ cr.commanded /\ cr.config = cfg
    /\ cr.timer = "armed" /\ cr.stoppedSub /\ cr.termSub

\* The call has started nothing: no debugger call, no listener, no timer.
StartedNothing(cr) ==
    /\ cr.pc = "done" /\ ~cr.commanded /\ cr.session = NoSession
    /\ cr.timer = "none" /\ ~cr.stoppedSub /\ ~cr.termSub

\* C6 as claimed: a launch without a configuration name starts the only
\* configuration when exactly one is defined, and returns the list of all
\* names and starts nothing when more than one is defined.
C6_NoNameLaunch ==
    [][\A c \in Calls : (LaunchStep(c) /\ call'[c].name = NoName) =>
          /\ Len(configs) = 1 =>
                /\ StartedWith(call'[c], configs[1])
                /\ \E s \in Sessions : sess[s] = "absent" /\ sess'[s] = "starting"
          /\ Len(configs) > 1 =>
                /\ call'[c].result = SuccessNames(MsgMultiple, configs)
                /\ StartedNothing(call'[c])
                /\ UNCHANGED <<sess, active, launchedBy>>]_vars

\* C6 as amended: with exactly one configuration the launch selects it and,
\* if no debug session is active, starts it (with a session active it
\* answers 'Debug session already active' and starts nothing).
C6_NoNameLaunchIfIdle ==
    [][\A c \in Calls : (LaunchStep(c) /\ call'[c].name = NoName) =>
          /\ Len(configs) = 1 =>
                /\ call'[c].config = configs[1]
                /\ active = NoSession =>
                      /\ StartedWith(call'[c], configs[1])
                      /\ \E s \in Sessions : sess[s] = "absent" /\ sess'[s] = "starting"
                /\ active # NoSession =>
                      /\ call'[c].result = Success(MsgAlreadyActive)
                      /\ StartedNothing(call'[c])
                      /\ UNCHANGED <<sess, active, launchedBy>>
          /\ Len(configs) > 1 =>
                /\ call'[c].result = SuccessNames(MsgMultiple, configs)
                /\ StartedNothing(call'[c])
                /\ UNCHANGED <<sess, active, launchedBy>>]_vars

\* A launch without a name has started the only configuration.
C6_Witness ==
    \E c \in Calls :
        /\ IsLaunch(c) /\ call[c].name = NoName /\ Len(configs) = 1
        /\ call[c].config = configs[1] /\ call[c].session # NoSession
        /\ launchedBy[call[c].session] = c

\* C7: a launch fails as an error, before any debugger call and without
\* starting a session, when there is no workspace folder, when no
\* configuration is defined, and when the named configuration does not
\* exist (the error then lists every defined name).
C7_LaunchErrors ==
    \A c \in Calls : IsLaunch(c) =>
        LET cr == call[c]
            failed(m, ns) == /\ cr.result = FailureNames(m, ns)
                             /\ StartedNothing(cr)
                             /\ \A s \in Sessions : launchedBy[s] # c
        IN  /\ ~wsFolder => failed(MsgNoWorkspace, <<>>)
            /\ (wsFolder /\ Len(configs) = 0) => failed(MsgNoConfigs, <<>>)
            /\ (wsFolder /\ Len(configs) > 0 /\ cr.name # NoName
                   /\ cr.name \notin Range(configs)) => failed(MsgNotFound, configs)

\* A launch naming an undefined configuration failed with both defined
\* names listed, while another launch with the same launch.json started.
C7_Witness ==
    \E c, d \in Calls :
        /\ IsLaunch(c) /\ call[c].name = MaxConfigs + 1 /\ Len(configs) = 2
        /\ call[c].result = FailureNames(MsgNotFound, configs)
        /\ IsLaunch(d) /\ call[d].commanded

\* ------------------------------------------- properties: dispatch
\* The step in which call c is dispatched to tool t.
Dispatched(c, t) == call[c].pc = "idle" /\ call'[c].tool = t

\* C8: with no active session, continue, stepOver, stepIn and stepOut fail
\* with 'No active debug session' and issue no command to the host, while
\* stop returns the message 'No active debug session' as a success.
C8_NoSessionExecute ==
    [][\A c \in Calls :
          (Dispatched(c, "debug_execute") /\ active = NoSession) =>
              /\ call'[c].action \in StepActions =>
                    /\ call'[c].result = Failure(MsgNoSession)
                    /\ StartedNothing(call'[c])
              /\ call'[c].action = "stop" =>
                    /\ call'[c].result = Success(MsgNoSession)
                    /\ StartedNothing(call'[c])]_vars

\* After the only session has ended, a stepOut failed and a stop got the
\* benign message.
C8_Witness ==
    \E c, d \in Calls :
        /\ call[c].action = "stepOut" /\ call[c].result = Failure(MsgNoSession)
        /\ call[d].action = "stop" /\ call[d].result = Success(MsgNoSession)
        /\ \E s \in Sessions : sess[s] = "terminated"

\* C9: every debug_inspect call made with no active session fails with the
\* 'No active debug session' error whatever its action and arguments, and
\* an unknown action or a missing expression is reported only when a
\* session is active.
C9_InspectNeedsSession ==
    [][\A c \in Calls : Dispatched(c, "debug_inspect") =>
          /\ active = NoSession =>
                /\ call'[c].result = Failure(MsgNoSessionPaused)
                /\ StartedNothing(call'[c])
          /\ call'[c].result.msg \in {MsgUnknownInspect, MsgExprRequired} =>
                active # NoSession]_vars

\* The same unknown inspect action was answered 'no active session' by one
\* call and 'unknown action' by another, made while a session was active.
C9_Witness ==
    \E c, d \in Calls :
        /\ call[c].tool = "debug_inspect" /\ call[c].action = "bogus"
        /\ call[c].result = Failure(MsgNoSessionPaused)
        /\ call[d].tool = "debug_inspect" /\ call[d].action = "bogus"
        /\ call[d].result = Failure(MsgUnknownInspect)

\* ------------------------------------------- properties: breakpoints
\* C10: after any sequence of successful set and remove calls, list returns
\* exactly the breakpoints set and not removed since, each with the file and
\* the 1-based line given to set, enabled = TRUE and the condition,
\* hitCondition and logMessage given to set, and count is their number.
C10_ListEchoesSet ==
    listed # NoList =>
        listed = [breakpoints |-> expected, count |-> Len(expected)]

\* The entry of list for breakpoint bp names file and line.
ListedAt(bp, file, line) == ListEntry(bp).file = file /\ ListEntry(bp).line = line

\* C11: remove{file, line} removes exactly the breakpoints whose file and
\* line (as list reports them) equal the given file and line, returns their
\* number as removed (0 when none matches), and leaves every other
\* breakpoint of the store in place and unchanged.
C11_RemoveExact ==
    [][bpReply'.msg \in {"No breakpoint found at", "Removed breakpoint(s) at"} =>
          LET f == bpReply'.file
              l == bpReply'.line
              other(bp) == ~ListedAt(bp, f, l)
          IN  /\ store' = SelectSeq(store, other)
              /\ bpReply'.ok
              /\ bpReply'.removed = Len(store) - Len(store')
              /\ bpReply'.removed =
                    Cardinality({i \in DOMAIN store : ListedAt(store[i], f, l)})
              /\ (bpReply'.removed = 0) <=> (bpReply'.msg = "No breakpoint found at")]_vars

\* A remove took out one breakpoint and left two in the store: one at the
\* same line in another file, one in the same file at another line.
C11_Witness ==
    /\ bpReply.msg = "Removed breakpoint(s) at" /\ bpReply.removed = 1
    /\ \E i, j \in DOMAIN store :
          /\ ListEntry(store[i]).file # bpReply.file
          /\ ListEntry(store[i]).line = bpReply.line
          /\ ListEntry(store[j]).file = bpReply.file
          /\ ListEntry(store[j]).line # bpReply.line

\* ------------------------------------------- properties: validation
\* The call that a step dispatches has started nothing and has failed with
\* message m, and the step has left sessions and breakpoints as they were.
RejectedWith(c, m) ==
    /\ call'[c].result = Failure(m)
    /\ StartedNothing(call'[c])
    /\ UNCHANGED <<sess, active, launchedBy, store>>

\* The breakpoints call of a step has failed with message m, and the step
\* has left sessions and breakpoints as they were.
BpRejectedWith(m) ==
    /\ bpReply' = BpReply(FALSE, m, NoFile, NoLineArg, 0)
    /\ UNCHANGED <<sessionVars, store>>

\* C12: a validation failure has no side effect.  A call with an unknown
\* tool, an unknown action of a known tool, set or remove without file or
\* without line, or evaluate without expression returns a failure that names
\* what is wrong (for debug_inspect without a session: the missing session),
\* and leaves the breakpoint store and the debug sessions unchanged.
C12_ValidationNoEffect ==
    [][/\ \A c \in Calls :
            /\ CallUnknownTool(c) => RejectedWith(c, MsgUnknownTool)
            /\ CallExecuteUnknown(c) => RejectedWith(c, MsgUnknownExecute)
            /\ CallInspect(c, "bogus", TRUE) =>
                  RejectedWith(c, IF active = NoSession THEN MsgNoSessionPaused
                                  ELSE MsgUnknownInspect)
            /\ CallInspect(c, "evaluate", FALSE) =>
                  RejectedWith(c, IF active = NoSession THEN MsgNoSessionPaused
                                  ELSE MsgExprRequired)
       /\ BpUnknown => BpRejectedWith(MsgUnknownBreakpoints)
       /\ \A f \in ValidationFiles, l \in ValidationLines :
            /\ (BpSet(f, l, NoOpt, NoOpt, NoOpt, TRUE) /\ f = NoFile)
                  => BpRejectedWith(MsgSetNoFile)
            /\ (BpSet(f, l, NoOpt, NoOpt, NoOpt, TRUE) /\ f # NoFile /\ l = NoLineArg)
                  => BpRejectedWith(MsgSetNoLine)
            /\ (BpRemove(f, l) /\ f = NoFile) => BpRejectedWith(MsgRemoveNoFile)
            /\ (BpRemove(f, l) /\ f # NoFile /\ l = NoLineArg)
                  => BpRejectedWith(MsgRemoveNoLine)]_vars

\* With a breakpoint in the store and a session stopped, a set without a
\* line was rejected, and so were an evaluate without expression and a call
\* of an unknown tool.
C12_Witness ==
    /\ bpReply.msg = MsgSetNoLine /\ Len(store) = 1
    /\ active # NoSession /\ sess[active] = "stopped"
    /\ \E c, d \in Calls :
          /\ call[c].result = Failure(MsgExprRequired)
          /\ call[d].result = Failure(MsgUnknownTool)

\* ------------------------------------------- properties: serving
\* The step in which the handler of request c ends.
Ended(c) == call[c].pc # "done" /\ call'[c].pc = "done"

\* The call ended on a host request that was rejected inside the race of
\* executeAndWaitForStop or waitForLaunchResult and caught there.
CaughtInRace(cr) == cr.outcome \in {"execfail", "stopfail"}

\* The step leaves the server and every request other than c as they were.
OthersUntouched(c) ==
    /\ UNCHANGED <<server, isRunning, emitter>>
    /\ \A d \in Calls \ {c} : call'[d] = call[d]

C15_MalformedRejected ==
    [][\A c \in Calls :
          (Ended(c) /\ call'[c].type \in {"unparsable", "null", "other"}) =>
              /\ call'[c].responses = 1
              /\ ~call'[c].result.ok
              /\ OthersUntouched(c)]_vars

C17_NoDrift ==
    drift # NoDrift => drift.left = drift.right

\* ------------------------------------------- properties: start()
\* start() has returned or thrown.
StartOver == cmd \in {"none", "failing"}
Started == StartOver /\ server = "listening"
FreePorts == {q \in DOMAIN portStatus : portStatus[q] = "free"}
\* The free ports that are preceded in the range by bind conflicts only.
FreeAfterConflicts ==
    {q \in FreePorts :
        \A r \in DOMAIN portStatus : r < q => portStatus[r] = "EADDRINUSE"}

\* C18 as stated: start() with configured port p succeeds if and only if one
\* of the ports p..p+9 is free, and then it has bound the lowest free one,
\* getPort() returns the bound port and isRunning is true.
C18_BindsLowestFree ==
    StartOver =>
        /\ Started = (FreePorts # {})
        /\ Started =>
              /\ bound \in FreePorts /\ \A q \in FreePorts : bound <= q
              /\ port = bound
              /\ isRunning

\* C18, amended: start() tries p, p+1, ..., p+9 in that order and goes on
\* to the next port only after a bind conflict.  It succeeds if and only if
\* some port of the range is free and every port before it gives a bind
\* conflict; it has then bound that port, the lowest free one, getPort()
\* returns it and isRunning is true.  Any other error ends start() at once.
C18_BindsFirstFreeAfterConflicts ==
    StartOver =>
        /\ Started = (FreeAfterConflicts # {})
        /\ Started =>
              /\ bound \in FreeAfterConflicts /\ \A q \in FreePorts : bound <= q
              /\ port = bound
              /\ isRunning

\* start() has bound the third port of the range after two conflicts.
C18_Witness ==
    /\ Started
    /\ attempt = 2
    /\ bound = port
    /\ \E q \in DOMAIN portStatus : q + 2 = bound /\ portStatus[q] = "EADDRINUSE"

\* ------------------------------------------- properties: the registry
\* No command and no start is under way, and the server is not closing.
Settled == cmd \in {"none", "deactivated"} /\ server \in {"null", "listening"}

\* C19: every registry entry of a workspace root of this window gives the
\* port of its server, which is running: once the server has stopped, by
\* the stop command, a restart, /shutdown, a failed start or the closing of
\* the window, the registry has no entry for the roots of the window.
C19_EntriesAreLive ==
    Settled =>
        \A i \in DOMAIN registry :
            registry[i].path \in Folders =>
                /\ server = "listening"
                /\ isRunning
                /\ registry[i].port = bound

\* ------------------------------------------- properties: the port lookup
\* key is a path-prefix of dir: it equals dir, or dir continues after it
\* with a path separator.
IsPathPrefix(key, dir) ==
    /\ Len(key) <= Len(dir)
    /\ \A i \in 1..Len(key) : dir[i] = key[i]
    /\ (Len(key) = Len(dir) \/ dir[Len(key) + 1] = Sep)

PortOf(reg, key) == reg[CHOOSE i \in DOMAIN reg : reg[i].path = key].port

\* C20: when some key of the registry is a path-prefix of the working
\* directory, the lookup returns the port of the entry with the longest
\* such key.  With entries /a and /a/b, a lookup from /a/b/c returns the
\* port of /a/b and a lookup from /a/bc returns the port of /a.
C20_LongestPrefix ==
    lookup # NoLookup =>
        LET reg == lookup.reg
            cwd == lookup.cwd
            m == {i \in DOMAIN reg : IsPathPrefix(reg[i].path, cwd)}
            A == <<Sep, "a">>
            AB == <<Sep, "a", Sep, "b">>
        IN /\ m # {} =>
                \E i \in m : /\ \A j \in m : Len(reg[j].path) <= Len(reg[i].path)
                             /\ lookup.port = reg[i].port
           /\ {reg[i].path : i \in DOMAIN reg} = {A, AB} =>
                /\ cwd = <<Sep, "a", Sep, "b", Sep, "c">> => lookup.port = PortOf(reg, AB)
                /\ cwd = <<Sep, "a", Sep, "b", "c">> => lookup.port = PortOf(reg, A)

\* A lookup from /a/bc in a registry with /a/b first and /a second, under
\* different ports, has returned the port of /a.
C20_Witness ==
    /\ lookup # NoLookup
    /\ lookup.cwd = <<Sep, "a", Sep, "b", "c">>
    /\ Len(lookup.reg) = 2
    /\ lookup.reg[1].path = <<Sep, "a", Sep, "b">>
    /\ lookup.reg[2].path = <<Sep, "a">>
    /\ lookup.reg[1].port # lookup.reg[2].port
    /\ lookup.port = lookup.reg[2].port

\* The entries of the looked-up file whose value is a number.
NumericEntries == {i \in DOMAIN lookup.reg : lookup.reg[i].type = "number"}

\* C21: the lookup always yields a port.  Without a file, with a file that
\* cannot be read or parsed, or with no numeric entry it is 4711; otherwise
\* it is the value of a numeric entry, also when no key is a prefix of the
\* working directory, which covers the legacy layout {port}; the value of an
\* entry that is not a number is never returned.
C21_LookupFallback ==
    lookup # NoLookup =>
        /\ lookup.port \in Nat
        /\ (lookup.file # "object" \/ NumericEntries = {}) =>
              lookup.port = DefaultPort
        /\ (lookup.file = "object" /\ NumericEntries # {}) =>
              \E i \in NumericEntries : lookup.port = lookup.reg[i].port
        /\ (/\ lookup.file = "object"
            /\ Len(lookup.reg) = 1
            /\ lookup.reg[1].path = LegacyKey
            /\ 1 \in NumericEntries) =>
              lookup.port = lookup.reg[1].port

\* A lookup from /a has returned the port of the numeric entry /b, which is
\* no prefix of /a and comes after an entry of /a that holds a string.
C21_Witness ==
    /\ lookup # NoLookup
    /\ lookup.file = "object"
    /\ lookup.cwd = <<Sep, "a">>
    /\ Len(lookup.reg) = 2
    /\ lookup.reg[1].path = <<Sep, "a">> /\ lookup.reg[1].type = "string"
    /\ lookup.reg[2].path = <<Sep, "b">> /\ lookup.reg[2].type = "number"
    /\ lookup.port = lookup.reg[2].port

\* ------------------------------------------- properties: /shutdown
\* The state that stop() ends in.
Stopped ==
    /\ server = "null"
    /\ ~isRunning
    /\ transports = {}
    /\ bound = NoPort
    /\ shutdown = "stopped"

Due(k) ==
    SelectSeq([i \in 1..Len(channel.sent) |->
                  [id |-> i, session |-> channel.sent[i].session]],
              LAMBDA e : /\ channel.sent[e.id].msg =
                               [type |-> "event", event |-> "stopped"]
                         /\ k \in channel.sent[e.id].subscribed)

\* C23: every subscriber has received the 'stopped' events sent while it
\* was subscribed, each once and in the order sent, and nothing else.
C23_DeliversWhileSubscribed ==
    \A k \in Subscribers : channel.log[k] = Due(k)

\* C23 while the emitter is not disposed.
C23_DeliversWhileLive ==
    emitter => C23_DeliversWhileSubscribed

\* ------------------------------------------- properties: the bridge
\* C24: the bridge sends {type: 'callTool', tool, arguments} with the name
\* and arguments it received to /tcp of the looked-up port; a successful
\* reply comes back as one text item, a string as it is and anything else
\* as its JSON; a reply with success false comes back as an error with the
\* server's message.
C24_ForwardsUnchanged ==
    bridge # NoBridge =>
        /\ bridge.sent.port = ReadPort("object", bridge.reg, bridge.cwd)
        /\ bridge.sent.path = "/tcp"
        /\ bridge.sent.method = "POST"
        /\ PayloadParse(bridge.sent.body) =
              [type |-> "callTool", tool |-> bridge.tool,
               arguments |-> bridge.arguments]
        /\ "success" \in DOMAIN bridge.reply =>
              IF bridge.reply.success
              THEN /\ ~bridge.result.isError
                   /\ Len(bridge.result.content) = 1
                   /\ bridge.result.content[1].type = "text"
                   /\ IF bridge.reply.data.t = "string"
                      THEN bridge.result.content[1].text = bridge.reply.data.v
                      ELSE JsonParse(bridge.result.content[1].text) =
                              bridge.reply.data.v
              ELSE /\ bridge.result.isError
                   /\ bridge.result.message = bridge.reply.error

\* A call with arguments was answered with success false.
C24_Witness ==
    /\ bridge # NoBridge
    /\ bridge.arguments.given
    /\ "success" \in DOMAIN bridge.reply
    /\ ~bridge.reply.success
    /\ bridge.sent.port # DefaultPort

\* ------------------------------------------- properties: evaluate
\* Field k of the result holds text t, or is absent when t is empty.
Holds(result, k, t) ==
    IF t = "" THEN k \notin DOMAIN result
    ELSE k \in DOMAIN result /\ result[k] = t

\* C25: the result of a successful evaluate has what was written to
\* standard output in its field 'output' and what was written to standard
\* error in its field 'stderr', and neither field when nothing was written.
C25_OutputCaptured ==
    (evald # NoEval /\ evald.reply.success) =>
        /\ Holds(evald.reply.data, "output", evald.written.stdout)
        /\ Holds(evald.reply.data, "stderr", evald.written.stderr)

\* C25 for expressions that write nothing.
C25_NoOutputNoFields ==
    (evald # NoEval /\ evald.reply.success
       /\ evald.written = [stdout |-> "", stderr |-> ""]) =>
        /\ "output" \notin DOMAIN evald.reply.data
        /\ "stderr" \notin DOMAIN evald.reply.data

\* ------------------------------------------- properties: no stop observed
\* The message for a race of request cr that ended without a stop.
NoStopMessage(cr) ==
    IF cr.outcome = "terminated" THEN MsgTerminated
    ELSE IF cr.action = "launch" THEN MsgLaunchRunning
    ELSE MsgTimeout

\* C26: a continue, step or launch that ends by its timeout or by the
\* termination of the session is answered with success and the message of
\* what happened, and the step that ends it by timeout leaves every
\* session as it was.
C26_NoStopIsNoError ==
    [][\A c \in Calls :
          (call[c].outcome = "none"
             /\ call'[c].outcome \in {"timeout", "terminated"}) =>
             /\ call'[c].pc = "done"
             /\ call'[c].result = Success(NoStopMessage(call'[c]))
             /\ call'[c].outcome = "timeout" => UNCHANGED <<sess, active>>]_vars

\* A continue has timed out with its session still running, and a launch
\* has ended by termination.
C26_Witness ==
    \E c, d \in Calls :
        /\ call[c].action = "continue" /\ call[c].outcome = "timeout"
        /\ call[c].result = Success(MsgTimeout)
        /\ sess[call[c].session] = "running"
        /\ call[d].action = "launch" /\ call[d].outcome = "terminated"
        /\ call[d].result = Success(MsgTerminated)

\* ------------------------------------------- properties: the listeners
\* Request c is in its race and nothing has decided it yet.
Undecided(c) == call[c].pc = "waiting" /\ ~call[c].resolved

\* The host reports in this step that session s has stopped or ended.
HostReports(s) ==
    /\ sess[s] \in LiveStates
    /\ sess'[s] \in {"stopped", "terminated"}
    /\ sess'[s] # sess[s]

\* C27: from the moment the action of a race is invoked, both
\* subscriptions and the timer are in place, and a stop or a termination
\* of the session of the race is observed by it, whether the promise of
\* the action has settled or not.
C27_ListenersBeforeAction ==
    /\ [](\A c \in Calls :
            Undecided(c) => /\ call[c].stoppedSub
                            /\ call[c].termSub
                            /\ call[c].timer = "armed")
    /\ [][\A c \in Calls :
            (Undecided(c) /\ HostReports(call[c].session)) =>
                call'[c].resolved]_vars

\* A continue has seen its session end, and a launch has seen its session
\* stop, each before the promise of its action settled.
C27_Witness ==
    \E c, d \in Calls :
        /\ call[c].action = "continue" /\ call[c].act = "pending"
        /\ call[c].outcome = "terminated"
        /\ call[d].action = "launch" /\ call[d].act = "pending"
        /\ call[d].gather = "pending" /\ call[d].gatherSession = call[d].session

\* ------------------------------------------- properties: the session filter
\* C28: while a continue or step waits, a stop or a termination of another
\* session leaves the request as it is: undecided, with its listeners and
\* its timer.
C28_OnlyOwnSession ==
    [][\A c \in Calls, s \in Sessions :
          (IsStep(c) /\ Undecided(c) /\ s # call[c].session /\ HostReports(s)) =>
              call'[c] = call[c]]_vars

\* A continue waits on one session, undecided, with its listeners and its
\* timer in place, while the other session has stopped.
C28_Witness ==
    \E c \in Calls, s \in Sessions :
        /\ IsStep(c) /\ Undecided(c)
        /\ call[c].stoppedSub /\ call[c].termSub /\ call[c].timer = "armed"
        /\ s # call[c].session
        /\ sess[call[c].session] = "running"
        /\ sess[s] = "stopped"

\* C29: while a launch waits, a stop or a termination of a session other
\* than the one it started leaves the request as it is.
C29_LaunchOwnSession ==
    [][\A c \in Calls, s \in Sessions :
          (IsLaunch(c) /\ Undecided(c) /\ s # call[c].session /\ HostReports(s)) =>
              call'[c] = call[c]]_vars

\* C29, first half: a launch produces at most one result, and never more
\* than one response.
C29_LaunchOneResult ==
    \A c \in Calls :
        IsLaunch(c) => /\ call[c].responses <= 1
                       /\ (call[c].outcome # "none" => call[c].responses = 1)

\* ------------------------------------------- properties: a failing action
\* The promise of the action of request c is rejected in this step.
ActionFails(c) == call[c].act = "pending" /\ call'[c].act = "failed"

\* C30: when the action of a continue or step fails while the race is
\* undecided, the request is answered 'Execution failed' and its listeners
\* and timer are cancelled; when the race is decided already, the failure
\* changes nothing else of the request.
C30_ActionFailure ==
    [][\A c \in Calls :
          (IsStep(c) /\ ActionFails(c)) =>
              IF ~call[c].resolved
              THEN /\ call'[c].resolved
                   /\ call'[c].outcome = "execfail"
                   /\ call'[c].result = Success(MsgExecFailed)
                   /\ ~call'[c].stoppedSub
                   /\ ~call'[c].termSub
                   /\ call'[c].timer = "cleared"
              ELSE call'[c] = [call[c] EXCEPT !.act = "failed"]]_vars

\* One request was decided by the failure of its action, and the action
\* of another failed after its timeout, or after a stop whose state was
\* still being gathered.
C30_Witness ==
    \E c, d \in Calls :
        /\ IsStep(c) /\ call[c].outcome = "execfail"
        /\ IsStep(d) /\ call[d].act = "failed"
        /\ call[d].outcome \in {"timeout", "stopped"}

\* ------------------------------------------- properties: the state failure
\* The outcomes of executeAndWaitForStop that are not a stop.
NotStopped == {"terminated", "timeout", "execfail", "stopfail"}

\* C31: when the stop listener of a continue or step has taken the race
\* and the stack query fails or returns no frame, the request is answered
\* 'Stopped but failed to get state'; the messages of the four outcomes
\* that are not a stop differ from each other and from that of a stop.
C31_StateFailure ==
    [][\A c \in Calls :
          (IsStep(c) /\ \E r \in {"empty", "fail"} : GatherSettles(c, r)) =>
              /\ call'[c].outcome = "stopfail"
              /\ call'[c].result = Success(MsgStopFailed)
              /\ \A o \in (NotStopped \cup {"stopped"}) \ {"stopfail"} :
                    StepResult(o) # call'[c].result
              /\ \A o1, o2 \in NotStopped :
                    o1 # o2 => StepResult(o1) # StepResult(o2)]_vars

\* A continue or step whose session stopped was answered with the state
\* failure.
C31_Witness ==
    \E c \in Calls :
        /\ IsStep(c) /\ call[c].pc = "done"
        /\ first[c] = "stop"
        /\ call[c].outcome = "stopfail"
        /\ call[c].result = Success(MsgStopFailed)

\* ------------------------------------------- properties: cleanup
\* The subscriptions and timers of request c that are live.
Live(c) ==
    (IF call[c].stoppedSub THEN 1 ELSE 0) + (IF call[c].termSub THEN 1 ELSE 0)
      + (IF call[c].timer = "armed" THEN 1 ELSE 0)

\* The race of request c is decided, or the request is answered.
Decided(c) ==
    call[c].resolved \/ call[c].outcome # "none" \/ call[c].pc = "done"

\* C32: a race that is decided has no subscription and no timer left, so
\* when every request is answered none is left at all.
C32_NothingLeft == \A c \in Calls : Decided(c) => Live(c) = 0

\* Two races have ended, one by a stop and one by its timer.
C32_Witness ==
    /\ \A c \in Calls : call[c].pc = "done" /\ Live(c) = 0
    /\ \E c, d \in Calls :
          /\ call[c].action = "launch" /\ call[c].outcome = "stopped"
          /\ call[d].action = "continue" /\ call[d].outcome = "timeout"

\* ------------------------------------------- properties: thread and command
\* C33: the thread is the thread argument when given, else the thread of
\* the active stack item when there is one, else the first thread of a
\* threads request; when that request returns none the call fails with
\* 'No threads available' and issues nothing.
C33_ThreadResolution ==
    step # NoStep =>
        IF step.threadArg # NoThread
        THEN step.thread.ok /\ step.thread.threadId = step.threadArg
                            /\ ~step.thread.asked
        ELSE IF step.item # NoThread
        THEN step.thread.ok /\ step.thread.threadId = step.item
                            /\ ~step.thread.asked
        ELSE /\ step.thread.asked
             /\ IF step.answer.ok /\ Len(step.answer.threads) > 0
                THEN step.thread.ok
                     /\ step.thread.threadId = step.answer.threads[1]
                ELSE /\ ~step.thread.ok
                     /\ step.issued.via = "none"
                     /\ step.answer.ok => step.thread.error = MsgNoThreads

\* A call without thread argument and active stack item has failed on a
\* threads request that returned no thread.
C33_Witness ==
    /\ step # NoStep
    /\ step.threadArg = NoThread /\ step.item = NoThread
    /\ step.answer = [ok |-> TRUE, threads |-> <<>>]
    /\ step.thread = [ok |-> FALSE, error |-> MsgNoThreads, asked |-> TRUE]
    /\ step.issued.via = "none"

\* C34: the direct request is used exactly when a thread id was given, or
\* a granularity with a step action; continue never carries a granularity;
\* the direct request carries the resolved thread id.
C34_DirectRequest ==
    (step # NoStep /\ step.thread.ok) =>
        /\ step.issued.via \in {"customRequest", "executeCommand"}
        /\ step.issued.via = "customRequest" <=>
              \/ step.threadArg # NoThread
              \/ step.granularity # Undefined /\ step.action # "continue"
        /\ step.action = "continue" => step.issued.granularity = Undefined
        /\ step.issued.via = "customRequest" =>
              /\ step.issued.threadId = step.thread.threadId
              /\ step.issued.command = DapCommand(step.action)
        /\ step.issued.via = "executeCommand" =>
              /\ step.issued.granularity = Undefined
              /\ step.issued.command = VscodeCommand(step.action)

\* A stepOver with a granularity and no thread argument went out as a
\* direct request with the thread of the active stack item.
C34_Witness ==
    /\ step # NoStep
    /\ step.action = "stepOver" /\ step.granularity = "line"
    /\ step.threadArg = NoThread /\ step.item = MaxThreads
    /\ step.issued = [via |-> "customRequest", command |-> "next",
                      threadId |-> MaxThreads, granularity |-> "line"]

\* ------------------------------------------- properties: stale state
\* C35: an evaluate request that the server sends for a call without
\* frameId carries the top frame of the stop the program is at when the
\* request goes out, whatever stops came before and whatever the host's
\* active stack item says.
C35_FreshFrame ==
    (stale.sent.frameId # NoFrame /\ stale.sent.arg = NoFrame) =>
        stale.sent.frameId = FrameId(stale.sent.gen, 1)

\* An evaluation without frameId went out after a second stop, while the
\* host's active stack item was still that of the first.
C35_Witness ==
    /\ stale.sent.arg = NoFrame
    /\ stale.sent.gen = 2
    /\ stale.sent.frameId = FrameId(2, 1)
    /\ stale.item = FrameId(1, 1)

\* ------------------------------------------- properties: restart
\* C36: whenever the server is listening, restarted or not, the 'stopped'
\* event of a session reaches every request that waits undecided on that
\* session, which goes on to gather the stopped state.
C36_StopsAfterRestart ==
    [][\A c \in Calls :
          (/\ server = "listening"
           /\ Undecided(c)
           /\ sess[call[c].session] = "running"
           /\ sess'[call[c].session] = "stopped") =>
              call'[c].gather = "pending"]_vars

\* C36 for a server that has not been stopped yet.
C36_StopsBeforeStop ==
    [][\A c \in Calls :
          (/\ emitter
           /\ Undecided(c)
           /\ sess[call[c].session] = "running"
           /\ sess'[call[c].session] = "stopped") =>
              call'[c].gather = "pending"]_vars

\* ------------------------------------------- properties: two windows
\* The registry reg maps the folder of window w to the port of window w.
Holds1(reg, w) ==
    \E i \in DOMAIN reg : reg[i].path = RootOf(w) /\ reg[i].port = WindowPort(w)

HasEntry(reg, w) == \E i \in DOMAIN reg : reg[i].path = RootOf(w)

\* C37: a window whose last completed update is a registration has its
\* entry with its own port in the file, and a window whose last completed
\* update is an unregistration has no entry, whatever the other window did
\* in between.
C37_NoLostUpdate ==
    \A w \in Windows :
        /\ shared.last[w] = "registered" => Holds1(shared.file, w)
        /\ shared.last[w] = "unregistered" => ~HasEntry(shared.file, w)

\* C37 for updates that do not overlap: a write of a window that read the
\* file as it is now changes nothing but the entry of its own folder.
C37_AloneKeepsOthers ==
    [][\A w \in Windows :
          (shared.pc[w] # "idle" /\ shared.snap[w] = shared.file
              /\ shared'.pc[w] = "idle") =>
            /\ \A v \in Windows \ {w} :
                  /\ Holds1(shared'.file, v) = Holds1(shared.file, v)
                  /\ HasEntry(shared'.file, v) = HasEntry(shared.file, v)
            /\ shared.pc[w] = "register" => Holds1(shared'.file, w)
            /\ shared.pc[w] = "unregister" => ~HasEntry(shared'.file, w)]_vars

OpenConnections == {t \in TransportIds : sse.wire[t] = "open"}

\* C39: the table holds exactly the session ids of the open connections,
\* and a POST /messages whose sessionId is missing, unknown or that of a
\* closed connection has been answered 404.
C39_TableIsOpenConnections ==
    /\ sse.table = OpenConnections
    /\ (sse.post # NoPost /\ ~sse.post.open) => sse.post.status = "404"

\* The part of C39 that holds: every open connection has its entry, no
\* entry is there before its connection, stop() leaves no entry, and a
\* POST with a missing sessionId or a UUID that no transport has is
\* answered 404.
C39_EntryWhileOpen ==
    /\ OpenConnections \subseteq sse.table
    /\ \A t \in TransportIds : sse.wire[t] = "none" => t \notin sse.table
    /\ sse.stopped => sse.table = {}
    /\ (/\ sse.post # NoPost
        /\ \/ sse.post.sid.kind = "missing"
           \/ sse.post.sid = [kind |-> "uuid", id |-> MaxTransports + 1])
          => sse.post.status = "404"

\* ------------------------------------------- properties: start() twice
\* C40: a start() is refused with 'Server is already running' exactly
\* when, at the time of the call, a start() had succeeded and no stop() had
\* completed since.
C40_RefusedIffRunning ==
    starts.last # "none" => ((starts.last = "refused") <=> starts.ranThen)

\* The part of C40 that holds: a start() on a server that has started and
\* not been stopped is refused, a refused start() found a server object in
\* place, and it changes nothing of the server, its port and its
\* connections.
C40_RefusedKeepsServer ==
    /\ [](starts.ranThen => starts.last = "refused")
    /\ [][(starts'.calls # starts.calls /\ starts'.last = "refused") =>
            /\ server # "null"
            /\ UNCHANGED <<server, isRunning, emitter, port, bound, transports>>]_vars

====
